---- MODULE Spec2Model ----
(***************************************************************************)
(* A state-machine model of the user-process runtime of starry-next:       *)
(* the address space (axmm AddrSpace and its mapping backends), the futex  *)
(* table, pipes, process exit / wait, signal masks and the page-fault      *)
(* handler.  Every subsystem has its own specification (SpecMM, SpecFork,  *)
(* SpecFutex, ...) over the shared variables; a specification leaves the   *)
(* variables of the other subsystems unchanged.                            *)
(***************************************************************************)
EXTENDS Integers, Sequences, FiniteSets, TLC

VARIABLES
    asp,        \* asp[i]: address space i = [live, areas, pt]; 1 = the source, 2 = its clone
    frames,     \* the frame allocator: [used : set of frame ids, data : frame id -> byte]
    mmlast,     \* the last address-space call: its name, arguments and result
    fk,         \* user memory as the processes of a fork see it (shadow, last read)
    fx,         \* the futex word, its wait queue and the threads A and B using it
    pp,         \* the pipe: its ring buffer, its two ends and the tasks using them
    pr,         \* a child process, its threads and its parent's waitpid
    sg,         \* the signal state of a thread: blocked mask, action, saved masks
    ff,         \* the last find_free_area call: the areas, its arguments and its result
    fdt,        \* the FD table of a process and the last call made on it
    cl,         \* tasks, processes and their images (SpecClone)
    gd,         \* an open directory, its one-slot cache and the last getdents64 call
    um,         \* the per-CPU ACCESSING_USER_MEM flag and the tasks that run on the CPU
    pb,         \* the address-space mutex and the threads that validate a user string
    tr,         \* the page faults of two threads that share address space 1
    ft,         \* the FD tables of a process and its child, shared or copied
    wp,         \* two threads of a parent in sys_waitpid and the one child of the parent
    br,         \* the heap bounds of a process and its two threads in sys_brk
    tst         \* the TimeStat of a task, the clock and the time the task really spent in each mode

mmVars == <<asp, frames, mmlast>>

vars == <<asp, frames, mmlast, fk, fx, pp, pr, sg, ff, fdt, cl, gd, um, pb, tr, ft, wp, br, tst>>

\* what the actions of one part leave alone
NotMM == <<fk, fx, pp, pr, sg, ff, fdt, cl, gd, um, pb, tr, ft, wp, br, tst>>
NotFork == <<fx, pp, pr, sg, ff, fdt, cl, gd, um, pb, tr, ft, wp, br, tst>>
NotFutex == <<asp, frames, mmlast, fk, pp, pr, sg, ff, fdt, cl, gd, um, pb, tr, ft, wp, br, tst>>
NotPipe == <<asp, frames, mmlast, fk, fx, pr, sg, ff, fdt, cl, gd, um, pb, tr, ft, wp, br, tst>>
NotProc == <<asp, frames, mmlast, fk, fx, pp, sg, ff, fdt, cl, gd, um, pb, tr, ft, wp, br, tst>>
NotSig == <<asp, frames, mmlast, fk, fx, pp, pr, ff, fdt, cl, gd, um, pb, tr, ft, wp, br, tst>>
NotFind == <<asp, frames, mmlast, fk, fx, pp, pr, sg, fdt, cl, gd, um, pb, tr, ft, wp, br, tst>>
NotFd == <<asp, frames, mmlast, fk, fx, pp, pr, sg, ff, cl, gd, um, pb, tr, ft, wp, br, tst>>
NotClone == <<asp, frames, mmlast, fk, fx, pp, pr, sg, ff, fdt, gd, um, pb, tr, ft, wp, br, tst>>
NotDents == <<asp, frames, mmlast, fk, fx, pp, pr, sg, ff, fdt, cl, um, pb, tr, ft, wp, br, tst>>
NotUserMem == <<asp, frames, mmlast, fk, fx, pp, pr, sg, ff, fdt, cl, gd, pb, tr, ft, wp, br, tst>>
NotProbe == <<asp, frames, mmlast, fk, fx, pp, pr, sg, ff, fdt, cl, gd, um, tr, ft, wp, br, tst>>
NotTrap == <<asp, frames, mmlast, fk, fx, pp, pr, sg, ff, fdt, cl, gd, um, pb, ft, wp, br, tst>>
NotMMTrap == <<fk, fx, pp, pr, sg, ff, fdt, cl, gd, um, pb, ft, wp, br, tst>>
NotFiles == <<asp, frames, mmlast, fk, fx, pp, pr, sg, ff, fdt, cl, gd, um, pb, tr, wp, br, tst>>
NotWaiters == <<asp, frames, mmlast, fk, fx, pp, pr, sg, ff, fdt, cl, gd, um, pb, tr, ft, br, tst>>
NotBrk == <<asp, frames, mmlast, fk, fx, pp, pr, sg, ff, fdt, cl, gd, um, pb, tr, ft, wp, tst>>
NotTime == <<asp, frames, mmlast, fk, fx, pp, pr, sg, ff, fdt, cl, gd, um, pb, tr, ft, wp, br>>

(***************************************************************************)
(* Address arithmetic (memory_addr).  Addresses are byte addresses.        *)
(***************************************************************************)
PAGE_SIZE_4K == 4096
PAGE_SIZE_2M == 2097152

is_aligned(x, align) == x % align = 0
align_down(x, align) == x - (x % align)
align_up(x, align) == IF x % align = 0 THEN x ELSE x + (align - (x % align))

Min(a, b) == IF a <= b THEN a ELSE b
Max(a, b) == IF a >= b THEN a ELSE b

(***************************************************************************)
(* Bounds of the model.                                                    *)
(***************************************************************************)
\* frames the frame allocator can hand out before alloc_pages fails
MaxFrames == 2

\* The address space: the last 4 KiB page below the 2 MiB boundary and the
\* 2 MiB page that follows it.
VaStart == PAGE_SIZE_2M - PAGE_SIZE_4K
VaEnd == 2 * PAGE_SIZE_2M
va_range == [start |-> VaStart, end |-> VaEnd]

\* usize is modelled AddrBits bits wide: as in the kernel, the address space
\* ends below the highest address, and start + size can pass it
AddrBits == 23
UsizeLimit == 2 ^ AddrBits

\* ranges (start, size, align) that va_range does not contain: below it,
\* across its base, across its end, above it, and past the highest address
OutsideChoices ==
    { <<VaStart - PAGE_SIZE_4K, PAGE_SIZE_4K, PAGE_SIZE_4K>>,
      <<VaStart - PAGE_SIZE_4K, 2 * PAGE_SIZE_4K, PAGE_SIZE_4K>>,
      <<VaEnd - PAGE_SIZE_4K, 2 * PAGE_SIZE_4K, PAGE_SIZE_4K>>,
      <<VaEnd, PAGE_SIZE_4K, PAGE_SIZE_4K>>,
      <<VaEnd, PAGE_SIZE_2M, PAGE_SIZE_2M>>,
      <<UsizeLimit - PAGE_SIZE_4K, 2 * PAGE_SIZE_4K, PAGE_SIZE_4K>> }

FrameIds == 1..MaxFrames

\* MappingFlags: READ, or READ | WRITE
FlagChoices == {{"READ"}, {"READ", "WRITE"}}
\* flags that areas are mapped with; protect changes them
MapFlags == {{"READ", "WRITE"}}
ProtFlags == {{"READ"}}

\* Arguments the calls are tried with: in and out of range, aligned and not.
ArgChoices ==
    { <<VaStart - PAGE_SIZE_4K, PAGE_SIZE_4K, PAGE_SIZE_4K>>,
      <<VaStart + 2048, PAGE_SIZE_4K, PAGE_SIZE_4K>>,
      <<VaStart, 2048, PAGE_SIZE_4K>>,
      <<VaStart, 0, PAGE_SIZE_4K>>,
      <<VaStart, PAGE_SIZE_4K, PAGE_SIZE_2M>>,
      <<VaStart, PAGE_SIZE_4K, PAGE_SIZE_4K>>,
      <<VaStart, 2 * PAGE_SIZE_4K, PAGE_SIZE_4K>>,
      <<VaStart, 3 * PAGE_SIZE_4K, PAGE_SIZE_4K>>,
      <<PAGE_SIZE_2M, PAGE_SIZE_4K, PAGE_SIZE_4K>>,
      <<PAGE_SIZE_2M, 2 * PAGE_SIZE_4K, PAGE_SIZE_4K>>,
      <<PAGE_SIZE_2M, PAGE_SIZE_2M, PAGE_SIZE_2M>> }
RangeChoices == {<<a[1], a[2]>> : a \in ArgChoices}
FaultChoices ==
    {VaStart - PAGE_SIZE_4K, VaStart, VaStart + 2048, PAGE_SIZE_2M, PAGE_SIZE_2M + PAGE_SIZE_4K}

ASpaces == {1, 2}

\* the pages and bytes that the processes of a fork write and read
ForkPages == {VaStart, VaStart + PAGE_SIZE_4K}
ForkBytes == {170, 187}
ForkSizes == {PAGE_SIZE_4K, 2 * PAGE_SIZE_4K}
Procs == {"parent", "child"}

\* the values of the futex word, the counts passed to FUTEX_WAKE, and how
\* many calls the two threads make
FutexVals == {0, 1}
WakeCounts == {1, 2}
MaxWaits == 2
MaxRounds == 2

\* the ring buffer of a pipe, the lengths of the buffers passed to read and
\* write, and how many bytes the writer sends in all
RING_BUFFER_SIZE == 256
BytePeriod == 251
ReadSizes == {0, 100, 300}
WriteSizes == {0, 100, 300}
MaxWritten == 700

\* the threads of the child process, the exit signals it is forked with and
\* the codes its threads pass to exit
SIGKILL == 9
SIGCHLD == 17
Threads == {"t1", "t2"}
ExitSignals == {0, SIGCHLD}
ExitCodes == {0, 42, 255}

\* the signals of the signal masks, the `how` of sigprocmask, and how many
\* signal handlers are entered one inside the other
SIGSTOP == 19
SIGCONT == 18
Signals == {SIGCHLD, SIGKILL, SIGSTOP}
Hows == {"SIG_BLOCK", "SIG_UNBLOCK", "SIG_SETMASK", "other"}
MaxHandlers == 2

\* find_free_area: the cells that hold areas (4 KiB each, from VaStart on),
\* and the hints, sizes, limits and alignments it is called with.  The hints
\* lie before, at the edges of, inside and after the cells.
MaxCells == 4
FindCell(k) == VaStart + k * PAGE_SIZE_4K
FindAreaSets ==
    {A \in SUBSET {[start |-> FindCell(a), size |-> (b - a) * PAGE_SIZE_4K] :
                      a \in 0..(MaxCells - 1), b \in 1..MaxCells} :
        /\ \A x \in A : x.size > 0
        /\ \A x, y \in A : x # y => (x.start + x.size <= y.start \/ y.start + y.size <= x.start)}
FindHints == {VaStart - PAGE_SIZE_4K, VaStart + 2048} \cup {FindCell(k) : k \in 0..MaxCells}
FindSizes == {0, PAGE_SIZE_4K, 2 * PAGE_SIZE_4K}
FindLimits == {[start |-> VaStart, end |-> FindCell(MaxCells)],
               [start |-> VaStart, end |-> FindCell(2)],
               [start |-> FindCell(1), end |-> VaEnd]}
FindAligns == {PAGE_SIZE_4K, PAGE_SIZE_2M}

\* the FD table: its size, the descriptors left free in a table that is
\* otherwise full, the file that is opened, the descriptors passed to close
\* and dup, and how many files are added
AX_FILE_LIMIT == 1024
FdProbes == {3, 4, AX_FILE_LIMIT - 2, AX_FILE_LIMIT - 1}
FdFiles == {7}
FdCloseArgs == {-1, 2, 3, 4, AX_FILE_LIMIT - 2, AX_FILE_LIMIT - 1, AX_FILE_LIMIT}
FdDupArgs == {-1, 0, 3, AX_FILE_LIMIT - 1}
MaxOpens == 3

\* sys_clone and sys_execve: the task ids taken after the first one, the
\* sys_execve calls, the CloneFlags
\* that sys_clone looks at, paths as strings of characters, the values of
\* argv[0], the programs that load_user_app finds and can load, and the
\* program of the first process
MaxTasks == 1
MaxExecs == 1
TaskIds == 1..(MaxTasks + 1)
CloneFlags == {"THREAD", "VM", "SIGHAND", "PARENT_SETTID", "CHILD_SETTID"}
ExecPaths == {<<"/", "a">>, <<"b">>, <<"x", "/", "c">>}
ExecArgs == {<<"/", "a">>, <<"x", "/", "c">>}
Loadable == {<<"/", "a">>, <<"b">>}
InitPath == <<"/", "i">>

\* the clock of SpecTime stops at this time
MaxTime == 4

\* axconfig::plat::USER_HEAP_BASE and USER_HEAP_SIZE are set by the platform
\* configuration; the heap is modelled with addresses counted in units
USER_HEAP_BASE == 2
USER_HEAP_SIZE == 2

\* sys_mmap is called while the address space has fewer areas than this
MaxMaps == 2

\* the calls of sys_waitpid that a thread makes in SpecWaiters
MaxCalls == 2

\* the highest descriptor that the processes of SpecFiles open
MaxFd == 4

\* check_null_terminated: the elements of a page and the pages of the
\* area that holds the string (the page after them is in no area)
PageElems == 2
AreaPages == 2

\* access_user_memory: how deep its scopes nest
MaxDepth == 2

\* sys_getdents64: the entries of a directory (an entry is the length of its
\* name), the directories and the buffer lengths
MaxEntries == 3
NameLens == {1, 12}
GdDirs == UNION {[1..n -> NameLens] : n \in 0..MaxEntries}
GdLens == {0, 23, 24, 32, 56, 88}
NAME_OFFSET == 19

(***************************************************************************)
(* Notation: With(v, F) binds the value v of a step for the steps after    *)
(* it; BRes is what a backend operation leaves and Res what a call on the  *)
(* memory set or the address space leaves.                                 *)
(***************************************************************************)
With(v, F(_)) == F(v)

BRes(ok, pt, g) == [ok |-> ok, pt |-> pt, g |-> g]

Res(res, areas, pt, g) == [res |-> res, areas |-> areas, pt |-> pt, g |-> g]

(***************************************************************************)
(* Page table (axhal::paging::PageTable), as the set of its leaf entries.  *)
(* An entry [va, size, flags, frame, off]: an Alloc page of `size` bytes   *)
(* backed by frame `frame`, or (frame = 0) a run of linearly mapped 4 KiB  *)
(* pages [va, va + size) with physical address va - off.                   *)
(***************************************************************************)
\* PageTable::query(vaddr) is Ok
PtMapped(pt, addr) == \E e \in pt : e.va <= addr /\ addr < e.va + e.size

PtEntry(pt, addr) == CHOOSE e \in pt : e.va <= addr /\ addr < e.va + e.size

PtOverlaps(pt, s, e) == \E x \in pt : x.va < e /\ s < x.va + x.size

\* PageTable::map(vaddr, frame, page_size, flags): AlreadyMapped when taken
PtCanMap(pt, addr, size) ==
    ~PtOverlaps(pt, align_down(addr, size), align_down(addr, size) + size)

PtMap(pt, addr, frame, size, flags) ==
    pt \cup {[va |-> align_down(addr, size), size |-> size, flags |-> flags,
              frame |-> frame, off |-> 0]}

\* The entries left when the pages of [s, e) are removed.
PtRemoveRange(pt, s, e) ==
    {x \in pt : ~(x.va < e /\ s < x.va + x.size)}
      \cup {[x EXCEPT !.size = s - x.va] :
                x \in {y \in pt : y.frame = 0 /\ y.va < s /\ s < y.va + y.size}}
      \cup {[x EXCEPT !.va = e, !.size = x.va + x.size - e] :
                x \in {y \in pt : y.frame = 0 /\ y.va < e /\ e < y.va + y.size}}

\* every 4 KiB page of [s, e) is mapped
RECURSIVE PtFullyMapped(_, _, _)
PtFullyMapped(pt, s, e) ==
    IF s >= e THEN TRUE
    ELSE /\ PtMapped(pt, s)
         /\ PtFullyMapped(pt, Min(e, PtEntry(pt, s).va + PtEntry(pt, s).size), e)

\* PageTable::protect_region: rewrite the flags of the mapped pages of [s, e)
PtProtectRange(pt, s, e, flags) ==
    {x \in pt : ~(x.va < e /\ s < x.va + x.size)}
      \cup {[x EXCEPT !.flags = flags] :
                x \in {y \in pt : y.frame # 0 /\ y.va < e /\ s < y.va + y.size}}
      \cup {[va |-> Max(x.va, s), size |-> Min(x.va + x.size, e) - Max(x.va, s),
             flags |-> flags, frame |-> 0, off |-> x.off] :
                x \in {y \in pt : y.frame = 0 /\ y.va < e /\ s < y.va + y.size}}
      \cup {[x EXCEPT !.size = s - x.va] :
                x \in {y \in pt : y.frame = 0 /\ y.va < s /\ s < y.va + y.size}}
      \cup {[x EXCEPT !.va = e, !.size = x.va + x.size - e] :
                x \in {y \in pt : y.frame = 0 /\ y.va < e /\ e < y.va + y.size}}

(***************************************************************************)
(* Frame allocator (backend/alloc.rs).                                     *)
(***************************************************************************)
\* alloc_frame(zeroed = true, align): the frame, or 0 for None
alloc_frame(g) ==
    IF FrameIds \ g.used = {}
    THEN [frame |-> 0, g |-> g]
    ELSE LET f == CHOOSE x \in FrameIds \ g.used : \A y \in FrameIds \ g.used : x <= y
         IN [frame |-> f,
             g |-> [used |-> g.used \cup {f}, data |-> [g.data EXCEPT ![f] = 0]]]

\* dealloc_frame(frame, align) for every frame of fs
dealloc_frame(g, fs) == [g EXCEPT !.used = g.used \ fs]

(***************************************************************************)
(* Mapping backends (backend/mod.rs, backend/alloc.rs).  An area is        *)
(* [start, size, flags, kind, populate, align, off]; kind is "Linear" or   *)
(* "Alloc", off is the Linear backend's pa_va_offset.  A backend operation *)
(* leaves BRes(ok, pt, g): its bool, the page table, the allocator.        *)
(***************************************************************************)
AreaEnd(a) == a.start + a.size

\* PageIterWrapper::new(start, end, page_size) is Some
PageIterOk(start, end, align) == is_aligned(start, align) /\ is_aligned(end, align)

\* Backend::map_alloc, populate = true: one frame per page, in address order;
\* a page for which alloc_frame returns None (fr.frame = 0) is skipped
RECURSIVE PopulatePages(_, _, _, _, _, _)
PopulatePages(addr, end, flags, align, pt, g) ==
    IF addr >= end THEN BRes(TRUE, pt, g)
    ELSE With(alloc_frame(g),
              LAMBDA fr :
                IF fr.frame = 0 THEN PopulatePages(addr + align, end, flags, align, pt, fr.g)
                ELSE IF PtCanMap(pt, addr, align)
                THEN PopulatePages(addr + align, end, flags, align,
                                   PtMap(pt, addr, fr.frame, align, flags), fr.g)
                ELSE BRes(FALSE, pt, fr.g))

Backend_map_alloc(start, size, flags, pt, populate, align, g) ==
    IF populate /\ PageIterOk(start, start + size, align)
    THEN PopulatePages(start, start + size, flags, align, pt, g)
    ELSE BRes(TRUE, pt, g)

\* the entries pt.unmap(addr) finds for addr = start, start + align, ... < end
UnmapHits(pt, start, end, align) ==
    {x \in pt :
        start + align_up(Max(x.va, start) - start, align) < Min(x.va + x.size, end)}

\* an unmap_alloc that leaves the page table as it is
Backend_unmap_alloc_keeps(start, size, pt, align, g) == BRes(TRUE, pt, g)

Backend_unmap_alloc(start, size, pt, align, g) ==
    IF PageIterOk(start, start + size, align)
    THEN BRes(TRUE,
              {x \in pt : x.frame # 0 /\ x \notin UnmapHits(pt, start, start + size, align)}
                 \cup PtRemoveRange({x \in pt : x.frame = 0}, start, start + size),
              dealloc_frame(g, {x.frame : x \in {y \in UnmapHits(pt, start, start + size, align) :
                                                    y.frame # 0}}))
    ELSE BRes(TRUE, pt, g)

Backend_handle_page_fault_alloc_unchecked(vaddr, orig_flags, pt, populate, align, g) ==
    IF populate THEN BRes(FALSE, pt, g)
    ELSE With(alloc_frame(g),
              LAMBDA fr :
                IF fr.frame = 0 THEN BRes(FALSE, pt, g)
                ELSE IF PtCanMap(pt, vaddr, align)
                THEN BRes(TRUE, PtMap(pt, vaddr, fr.frame, align, orig_flags), fr.g)
                ELSE BRes(TRUE, pt, fr.g))

Backend_handle_page_fault_alloc(vaddr, orig_flags, pt, populate, align, g) ==
    IF populate THEN BRes(FALSE, pt, g)
    ELSE With(alloc_frame(g),
              LAMBDA fr :
                IF fr.frame = 0 THEN BRes(FALSE, pt, g)
                ELSE IF PtCanMap(pt, vaddr, align)
                THEN BRes(TRUE, PtMap(pt, vaddr, fr.frame, align, orig_flags), fr.g)
                ELSE BRes(FALSE, pt, fr.g))

\* Backend::map_linear: install the PTEs of [start, start + size) eagerly
Backend_map_linear(start, size, flags, pt, off, g) ==
    IF PtOverlaps(pt, start, start + size)
    THEN BRes(FALSE, pt, g)
    ELSE BRes(TRUE,
              pt \cup {[va |-> start, size |-> size, flags |-> flags, frame |-> 0, off |-> off]},
              g)

\* Backend::unmap_linear: remove them; an unmapped page is an error
Backend_unmap_linear(start, size, pt, g) ==
    IF PtFullyMapped(pt, start, start + size)
    THEN BRes(TRUE, PtRemoveRange(pt, start, start + size), g)
    ELSE BRes(FALSE, pt, g)

\* <Backend as MappingBackend>::map
Backend_map(a, start, size, flags, pt, g) ==
    IF a.kind = "Linear"
    THEN Backend_map_linear(start, size, flags, pt, a.off, g)
    ELSE Backend_map_alloc(start, size, flags, pt, a.populate, a.align, g)

\* <Backend as MappingBackend>::unmap
Backend_unmap(a, start, size, pt, g) ==
    IF a.kind = "Linear"
    THEN Backend_unmap_linear(start, size, pt, g)
    ELSE Backend_unmap_alloc(start, size, pt, a.align, g)

\* <Backend as MappingBackend>::protect
Backend_protect(start, size, new_flags, pt) ==
    PtProtectRange(pt, start, start + size, new_flags)

\* Backend::handle_page_fault
Backend_handle_page_fault(a, vaddr, orig_flags, pt, g) ==
    IF a.kind = "Linear"
    THEN BRes(FALSE, pt, g)
    ELSE Backend_handle_page_fault_alloc(vaddr, orig_flags, pt, a.populate, a.align, g)

(***************************************************************************)
(* MemorySet<Backend> (crate memory_set): the areas, keyed by start.       *)
(* A call leaves Res(res, areas, pt, g): "Ok" or the error, the areas, the *)
(* page table and the frame allocator.                                     *)
(***************************************************************************)
MkArea(start, size, flags, kind, populate, align, off) ==
    [start |-> start, size |-> size, flags |-> flags, kind |-> kind,
     populate |-> populate, align |-> align, off |-> off]

\* areas.range(..x).last(), as a set of at most one area
LastBefore(areas, x) ==
    {a \in areas : a.start < x /\ \A b \in areas : b.start < x => b.start <= a.start}

\* areas.range(x..).next(), as a set of at most one area
FirstFrom(areas, x) ==
    {a \in areas : a.start >= x /\ \A b \in areas : b.start >= x => a.start <= b.start}

\* AddrRange::overlaps
RangeOverlaps(s1, e1, s2, e2) == s1 < e2 /\ s2 < e1

\* MemorySet::overlaps: looks at the neighbour on each side only
MS_overlaps(areas, s, e) ==
    \/ \E b \in LastBefore(areas, s) : RangeOverlaps(b.start, AreaEnd(b), s, e)
    \/ \E a \in FirstFrom(areas, s) : RangeOverlaps(a.start, AreaEnd(a), s, e)

\* MemorySet::find
MS_find(areas, addr) == {a \in areas : a.start <= addr /\ addr < AreaEnd(a)}

\* MemorySet::map(area, pt, unmap_overlap = false)
MS_map(areas, pt, g, area) ==
    IF area.size = 0 THEN Res("InvalidParam", areas, pt, g)
    ELSE IF MS_overlaps(areas, area.start, AreaEnd(area))
    THEN Res("AlreadyExists", areas, pt, g)
    ELSE With(Backend_map(area, area.start, area.size, area.flags, pt, g),
              LAMBDA m : IF m.ok THEN Res("Ok", areas \cup {area}, m.pt, m.g)
                         ELSE Res("BadState", areas, m.pt, m.g))

\* the first area in iteration order (ascending start)
FirstArea(todo) == CHOOSE x \in todo : \A y \in todo : x.start <= y.start

\* areas.retain: unmap_area() every area in `todo` (the areas inside the
\* range), lowest start first
RECURSIVE UnmapAreas(_, _, _)
UnmapAreas(todo, pt, g) ==
    IF todo = {} THEN BRes(TRUE, pt, g)
    ELSE With(FirstArea(todo),
              LAMBDA a :
                With(Backend_unmap(a, a.start, a.size, pt, g),
                     LAMBDA u : IF u.ok THEN UnmapAreas(todo \ {a}, u.pt, u.g)
                                ELSE BRes(FALSE, u.pt, u.g)))

\* the second step of MemorySet::unmap: the area `before` that crosses
\* `start` has its part in the range unmapped with result u; shrink_right,
\* or split when it also crosses `end`
MS_unmap_left(areas, pt, g, start, end) ==
    IF \A b \in LastBefore(areas, start) : AreaEnd(b) <= start
    THEN Res("Ok", areas, pt, g)
    ELSE With(CHOOSE b \in LastBefore(areas, start) : TRUE,
              LAMBDA before :
                With(Backend_unmap(before, start, Min(AreaEnd(before), end) - start, pt, g),
                     LAMBDA u :
                       IF ~u.ok THEN Res("BadState", areas, u.pt, u.g)
                       ELSE IF AreaEnd(before) <= end
                       THEN Res("Ok",
                                (areas \ {before})
                                   \cup {[before EXCEPT !.size = start - before.start]},
                                u.pt, u.g)
                       ELSE Res("Ok",
                                (areas \ {before})
                                   \cup {[before EXCEPT !.size = start - before.start],
                                         [before EXCEPT !.start = end,
                                                        !.size = AreaEnd(before) - end]},
                                u.pt, u.g)))

\* the third step of MemorySet::unmap: the area `after` that crosses `end`
\* has its part in the range unmapped with result u; shrink_left
MS_unmap_right(areas, pt, g, start, end) ==
    IF \A a \in FirstFrom(areas, start) : a.start >= end
    THEN Res("Ok", areas, pt, g)
    ELSE With(CHOOSE a \in FirstFrom(areas, start) : TRUE,
              LAMBDA after :
                With(Backend_unmap(after, after.start, end - after.start, pt, g),
                     LAMBDA u :
                       IF ~u.ok THEN Res("BadState", areas, u.pt, u.g)
                       ELSE Res("Ok",
                                (areas \ {after})
                                   \cup {[after EXCEPT !.start = end,
                                                       !.size = AreaEnd(after) - end]},
                                u.pt, u.g)))

\* an unmap that unmaps the pages of the areas wholly inside the range and
\* keeps the areas in the set
MS_unmap_retaining(areas, pt, g, start, size) ==
    IF size = 0 THEN Res("Ok", areas, pt, g)
    ELSE With({a \in areas : start <= a.start /\ AreaEnd(a) <= start + size},
              LAMBDA inside :
                With(UnmapAreas(inside, pt, g),
                     LAMBDA u1 :
                       IF ~u1.ok THEN Res("Panic", areas, u1.pt, u1.g)
                       ELSE Res("Ok", areas, u1.pt, u1.g)))

\* MemorySet::unmap(start, size, pt): the areas wholly inside the range
\* (unmapping them gives u1, and a failure panics), then the two edges
MS_unmap(areas, pt, g, start, size) ==
    IF size = 0 THEN Res("Ok", areas, pt, g)
    ELSE With({a \in areas : start <= a.start /\ AreaEnd(a) <= start + size},
              LAMBDA inside :
                With(UnmapAreas(inside, pt, g),
                     LAMBDA u1 :
                       IF ~u1.ok THEN Res("Panic", areas, u1.pt, u1.g)
                       ELSE With(MS_unmap_left(areas \ inside, u1.pt, u1.g, start, start + size),
                                 LAMBDA u2 :
                                   IF u2.res # "Ok" THEN u2
                                   ELSE MS_unmap_right(u2.areas, u2.pt, u2.g,
                                                       start, start + size))))

\* MemorySet::protect(start, size, |_| Some(flags), pt): every area that meets
\* the range is split at its edges and the part inside gets the new flags
ProtectPieces(a, start, end, flags) ==
    IF ~RangeOverlaps(a.start, AreaEnd(a), start, end) THEN {a}
    ELSE {[a EXCEPT !.start = Max(a.start, start),
                    !.size = Min(AreaEnd(a), end) - Max(a.start, start),
                    !.flags = flags]}
         \cup (IF a.start < start THEN {[a EXCEPT !.size = start - a.start]} ELSE {})
         \cup (IF AreaEnd(a) > end
               THEN {[a EXCEPT !.start = end, !.size = AreaEnd(a) - end]} ELSE {})

MS_protect(areas, pt, g, start, size, flags) ==
    IF size = 0 THEN Res("Ok", areas, pt, g)
    ELSE Res("Ok",
        UNION {ProtectPieces(a, start, start + size, flags) : a \in areas},
        IF \E a \in areas : RangeOverlaps(a.start, AreaEnd(a), start, start + size)
        THEN Backend_protect(start, size, flags, pt) ELSE pt,
        g)

\* MemorySet::clear: unmap every area
MS_clear(areas, pt, g) ==
    With(UnmapAreas(areas, pt, g),
         LAMBDA u : Res(IF u.ok THEN "Ok" ELSE "Panic", {}, u.pt, u.g))

\* .map_err(mapping_err_to_ax_err) on a result
map_err(r) == [r EXCEPT !.res = IF @ = "InvalidParam" THEN "InvalidInput" ELSE @]

(***************************************************************************)
(* AddrSpace (aspace.rs).                                                  *)
(***************************************************************************)
\* validate_region, with VirtAddrRange::contains_range; building the range
\* with VirtAddrRange::from_start_size panics when start + size overflows
validate_region(start, size, align) ==
    IF start + size >= UsizeLimit THEN "Panic"
    ELSE IF ~(va_range.start <= start /\ start + size <= va_range.end) THEN "InvalidInput"
    ELSE IF ~is_aligned(start, align) \/ ~is_aligned(size, align) THEN "InvalidInput"
    ELSE "Ok"

map_linear(areas, pt, g, start_vaddr, start_paddr, size, flags, align) ==
    IF validate_region(start_vaddr, size, align) # "Ok"
    THEN Res(validate_region(start_vaddr, size, align), areas, pt, g)
    ELSE IF ~is_aligned(start_paddr, align) THEN Res("InvalidInput", areas, pt, g)
    ELSE map_err(MS_map(areas, pt, g,
                        MkArea(start_vaddr, size, flags, "Linear", FALSE, align,
                               start_vaddr - start_paddr)))

\* a map_alloc that inserts its area without looking at the ones present
map_alloc_unchecked(areas, pt, g, start, size, flags, populate, align) ==
    IF validate_region(start, size, align) # "Ok"
    THEN Res(validate_region(start, size, align), areas, pt, g)
    ELSE Res("Ok", areas \cup {MkArea(start, size, flags, "Alloc", populate, align, 0)}, pt, g)

map_alloc(areas, pt, g, start, size, flags, populate, align) ==
    IF validate_region(start, size, align) # "Ok"
    THEN Res(validate_region(start, size, align), areas, pt, g)
    ELSE map_err(MS_map(areas, pt, g, MkArea(start, size, flags, "Alloc", populate, align, 0)))

\* self.areas.iter().skip_while(|a| a.end() <= start).take_while(|a| a.start() < end):
\* the areas iterate in ascending start, so these are the areas the loop visits
AreasMet(areas, start, end) ==
    {a \in areas :
        /\ \E b \in areas : b.start <= a.start /\ AreaEnd(b) > start
        /\ a.start < end}

\* AddrSpace::unmap: the part of every area met by the range must be aligned
\* to the area's page size
unmap(areas, pt, g, start, size) ==
    IF validate_region(start, size, PAGE_SIZE_4K) # "Ok"
    THEN Res(validate_region(start, size, PAGE_SIZE_4K), areas, pt, g)
    ELSE IF \E a \in AreasMet(areas, start, start + size) :
                \/ ~is_aligned(Max(start, a.start), a.align)
                \/ ~is_aligned(Min(start + size, AreaEnd(a)) - Max(start, a.start), a.align)
    THEN Res("InvalidInput", areas, pt, g)
    ELSE map_err(MS_unmap(areas, pt, g, start, size))

\* the inner loop of populate_area: fault in the missing pages of [addr, end)
RECURSIVE PopulateMissing(_, _, _, _, _)
PopulateMissing(a, addr, end, pt, g) ==
    IF addr >= end THEN BRes(TRUE, pt, g)
    ELSE IF PtMapped(pt, addr) THEN PopulateMissing(a, addr + a.align, end, pt, g)
    ELSE With(Backend_handle_page_fault(a, addr, a.flags, pt, g),
              LAMBDA h : IF h.ok THEN PopulateMissing(a, addr + a.align, end, h.pt, h.g)
                         ELSE BRes(FALSE, h.pt, h.g))

\* the while loop of populate_area: the area a found at `start`, the pages
\* populated in it with result p, and on to the next area
RECURSIVE PopulateLoop(_, _, _, _, _, _)
PopulateLoop(areas, pt, g, start, end, align) ==
    IF MS_find(areas, start) = {}
    THEN Res(IF start < end THEN "NoMemory" ELSE "Ok", areas, pt, g)
    ELSE With(CHOOSE x \in MS_find(areas, start) : TRUE,
              LAMBDA a :
                IF a.kind = "Alloc" /\ ~a.populate
                      /\ ~PageIterOk(start, Min(AreaEnd(a), end), a.align)
                THEN Res("Panic", areas, pt, g)
                ELSE With(IF a.kind = "Alloc" /\ ~a.populate
                          THEN PopulateMissing(a, start, Min(AreaEnd(a), end), pt, g)
                          ELSE BRes(TRUE, pt, g),
                          LAMBDA p :
                            IF ~p.ok THEN Res("NoMemory", areas, p.pt, p.g)
                            ELSE IF ~is_aligned(AreaEnd(a), align)
                            THEN Res("Panic", areas, p.pt, p.g)
                            ELSE IF AreaEnd(a) >= end THEN Res("Ok", areas, p.pt, p.g)
                            ELSE PopulateLoop(areas, p.pt, p.g, AreaEnd(a), end, align)))

populate_area(areas, pt, g, start, size, align) ==
    IF validate_region(start, size, align) # "Ok"
    THEN Res(validate_region(start, size, align), areas, pt, g)
    ELSE PopulateLoop(areas, pt, g, start, start + size, align)

protect(areas, pt, g, start, size, flags, align) ==
    With(populate_area(areas, pt, g, start, size, align),
         LAMBDA p : IF p.res # "Ok" THEN p
                    ELSE MS_protect(p.areas, p.pt, p.g, start, size, flags))

\* AddrSpace::handle_page_fault; res is "Ok" for true and "Fault" for false
handle_page_fault(areas, pt, g, vaddr, access_flags) ==
    IF ~(va_range.start <= vaddr /\ vaddr < va_range.end) THEN Res("Fault", areas, pt, g)
    ELSE IF MS_find(areas, vaddr) = {} THEN Res("Fault", areas, pt, g)
    ELSE With(CHOOSE x \in MS_find(areas, vaddr) : TRUE,
              LAMBDA a :
                IF ~(access_flags \subseteq a.flags) THEN Res("Fault", areas, pt, g)
                ELSE With(Backend_handle_page_fault(a, vaddr, a.flags, pt, g),
                          LAMBDA h : Res(IF h.ok THEN "Ok" ELSE "Fault", areas, h.pt, h.g)))

\* the entries of a set of page-table entries, in address order
RECURSIVE EntrySeq(_)
EntrySeq(es) ==
    IF es = {} THEN <<>>
    ELSE LET x == CHOOSE e \in es : \A y \in es : e.va <= y.va
         IN <<x>> \o EntrySeq(es \ {x})

\* the areas in iteration order (ascending start)
RECURSIVE AreaSeq(_)
AreaSeq(areas) ==
    IF areas = {} THEN <<>> ELSE <<FirstArea(areas)>> \o AreaSeq(areas \ {FirstArea(areas)})

\* a page loop that maps the pages of the new address space and copies
\* nothing into them
RECURSIVE ClonePages_uncopied(_, _, _, _)
ClonePages_uncopied(a, todo, npt, g) ==
    IF todo = <<>> THEN [res |-> "Ok", pt |-> npt, g |-> g]
    ELSE With(IF PtMapped(npt, Head(todo).va) THEN BRes(TRUE, npt, g)
              ELSE Backend_handle_page_fault(a, Head(todo).va, a.flags, npt, g),
              LAMBDA h :
                IF ~h.ok THEN [res |-> "NoMemory", pt |-> h.pt, g |-> h.g]
                ELSE ClonePages_uncopied(a, Tail(todo), h.pt, h.g))

\* the page loop of clone_or_err over the resident pages `todo` of area a:
\* the page is looked up in the new page table or faulted in (h), and
\* copy_nonoverlapping copies the frame of the source entry to its frame
RECURSIVE ClonePages(_, _, _, _)
ClonePages(a, todo, npt, g) ==
    IF todo = <<>> THEN [res |-> "Ok", pt |-> npt, g |-> g]
    ELSE With(IF PtMapped(npt, Head(todo).va) THEN BRes(TRUE, npt, g)
              ELSE Backend_handle_page_fault(a, Head(todo).va, a.flags, npt, g),
              LAMBDA h :
                IF ~h.ok THEN [res |-> "NoMemory", pt |-> h.pt, g |-> h.g]
                ELSE ClonePages(a, Tail(todo), h.pt,
                                IF Head(todo).frame = 0 \/ PtEntry(h.pt, Head(todo).va).frame = 0
                                THEN h.g
                                ELSE [h.g EXCEPT !.data[PtEntry(h.pt, Head(todo).va).frame] =
                                                     h.g.data[Head(todo).frame]]))

\* the area loop of clone_or_err: the area is mapped in the new address space
\* with result m, then its pages are copied with result c
RECURSIVE CloneAreas(_, _, _, _, _)
CloneAreas(todo, srcpt, nareas, npt, g) ==
    IF todo = <<>> THEN Res("Ok", nareas, npt, g)
    ELSE With(MS_map(nareas, npt, g, Head(todo)),
              LAMBDA m :
                IF m.res # "Ok" THEN map_err(m)
                ELSE IF Head(todo).kind = "Linear"
                THEN CloneAreas(Tail(todo), srcpt, m.areas, m.pt, m.g)
                ELSE With(ClonePages(Head(todo),
                                     EntrySeq({x \in srcpt : /\ Head(todo).start <= x.va
                                                             /\ x.va < AreaEnd(Head(todo))}),
                                     m.pt, m.g),
                          LAMBDA c :
                            IF c.res # "Ok" THEN Res(c.res, m.areas, c.pt, c.g)
                            ELSE CloneAreas(Tail(todo), srcpt, m.areas, c.pt, c.g)))

\* a clone that hands out the source's areas and page table
clone_or_err_shared(areas, pt, g) == Res("Ok", areas, pt, g)

\* AddrSpace::clone_or_err: the new address space, or the error with the
\* half-built address space dropped (Drop for AddrSpace clears its areas)
clone_or_err(areas, pt, g) ==
    With(CloneAreas(AreaSeq(areas), pt, {}, {}, g),
         LAMBDA c : IF c.res = "Ok" THEN c
                    ELSE Res(c.res, {}, {}, MS_clear(c.areas, c.pt, c.g).g))

\* the first loop of find_free_area over the areas in `todo`: last_end moves
\* past the areas that end before it, up to the first area that does not
RECURSIVE FindSkip(_, _, _)
FindSkip(todo, last_end, align) ==
    IF todo = <<>> THEN last_end
    ELSE IF AreaEnd(Head(todo)) <= last_end
    THEN FindSkip(Tail(todo), Max(last_end, align_up(AreaEnd(Head(todo)), align)), align)
    ELSE last_end

\* the second loop of find_free_area: an area that starts before last_end is
\* passed over, a gap of `size` bytes before the area is returned, and
\* otherwise last_end moves to the end of the area
RECURSIVE FindGap(_, _, _, _)
FindGap(todo, last_end, size, align) ==
    IF todo = <<>> THEN [found |-> FALSE, last_end |-> last_end]
    ELSE IF Head(todo).start < last_end THEN FindGap(Tail(todo), last_end, size, align)
    ELSE IF last_end + size <= Head(todo).start THEN [found |-> TRUE, last_end |-> last_end]
    ELSE FindGap(Tail(todo), align_up(AreaEnd(Head(todo)), align), size, align)

\* AddrSpace::find_free_area(hint, size, limit, align): Some(addr) or None
find_free_area(areas, hint, size, limit, align) ==
    With(FindGap(AreaSeq(areas),
                 FindSkip(AreaSeq(areas), align_up(Max(hint, limit.start), align), align),
                 size, align),
         LAMBDA f : IF f.found THEN [some |-> TRUE, addr |-> f.last_end]
                    ELSE IF f.last_end + size <= limit.end
                    THEN [some |-> TRUE, addr |-> f.last_end]
                    ELSE [some |-> FALSE, addr |-> 0])

(***************************************************************************)
(* Specification SpecMM: calls on an address space in any order.           *)
(***************************************************************************)
NoASpace == [live |-> FALSE, areas |-> {}, pt |-> {}]

\* no load made yet
NoRead == [va |-> 0, val |-> 0, want |-> 0, other |-> 0, after |-> FALSE]

Intersects(a, b) == Max(a.start, b.start) < Min(AreaEnd(a), AreaEnd(b))

\* the kinds of the areas that a range meets: Linear, populated Alloc, lazy
\* Alloc with or without a page faulted in
HitTags(areas, pt, start, size) ==
    {IF a.kind = "Linear" THEN "Linear"
     ELSE IF a.populate THEN "Populated"
     ELSE IF \E e \in pt : e.frame # 0 /\ a.start <= e.va /\ e.va < AreaEnd(a) THEN "Faulted"
     ELSE "Lazy" : a \in {b \in areas : Intersects(b, [start |-> start, size |-> size])}}

\* the record of a call: what was called with which arguments (and, hit,
\* what the range met) when it succeeds, and otherwise whether it returned an
\* error or panicked
Call(op, i, start, size, populate, hit, res) ==
    IF res = "Ok"
    THEN [op |-> op, asp |-> i, start |-> start, size |-> size, populate |-> populate,
          res |-> res, hit |-> hit]
    ELSE [op |-> "failed", asp |-> 0, start |-> 0, size |-> 0, populate |-> FALSE,
          res |-> IF res = "Panic" THEN "Panic" ELSE "Err", hit |-> {}]

InitMM ==
    /\ asp = [i \in ASpaces |-> IF i = 1 THEN [live |-> TRUE, areas |-> {}, pt |-> {}]
                                 ELSE NoASpace]
    /\ frames = [used |-> {}, data |-> [f \in FrameIds |-> 0]]
    /\ mmlast = Call("none", 0, 0, 0, FALSE, {}, "Ok")

\* no process has been forked and user memory reads 0 everywhere
InitFork ==
    fk = [child  |-> 0,
          dead   |-> {},
          shadow |-> [i \in ASpaces |-> [va \in ForkPages |-> 0]],
          since  |-> {},
          read   |-> [p \in Procs |-> NoRead]]

\* an empty futex table; both threads run user code
InitFutex ==
    fx = [word |-> 0, table |-> FALSE, guards |-> 0, queue |-> <<>>,
          a |-> [pc |-> "user", val |-> 0, timed |-> FALSE, ret |-> "none", calls |-> 0],
          b |-> [pc |-> "user", value |-> 0, i |-> 0, count |-> 0, rounds |-> 0]]

\* Pipe::new: an empty ring buffer and its two ends
InitPipe ==
    pp = [rb |-> [arr |-> [i \in 0..(RING_BUFFER_SIZE - 1) |-> 0],
                  head |-> 0, tail |-> 0, status |-> "Empty"],
          rdropped |-> FALSE, wdropped |-> FALSE,
          r |-> [pc |-> "idle", len |-> 0, ret |-> 0, yielded |-> FALSE],
          w |-> [pc |-> "idle", len |-> -1, total_len |-> 0, write_size |-> 0, ret |-> 0,
                 err |-> "Ok", yielded |-> FALSE],
          sent |-> 0, out |-> <<>>]

\* the parent has no child yet
InitProc ==
    pr = [forked |-> FALSE, exit_signal |-> 0, threads |-> {},
          th |-> [t \in Threads |-> [pc |-> "none", arg |-> -1, code |-> 0,
                                     group |-> FALSE, fault |-> FALSE]],
          kill |-> [t \in Threads |-> FALSE],
          exit_code |-> 0, group_exited |-> FALSE, zombie |-> FALSE, freed |-> FALSE,
          sent |-> {}, notified |-> FALSE, overlap |-> FALSE,
          w |-> [pc |-> "user", nohang |-> FALSE, ret |-> "none", status |-> 0,
                 yielded |-> FALSE]]

\* no sigtimedwait call has been made: set and timeout are its arguments
\* (timeout tells whether one was given), sig the signal that wait_timeout
\* took (0: none), info the signo stored through info, err and ret the result
NoTimedWait ==
    [set |-> {}, timeout |-> FALSE, sig |-> 0, info |-> 0, err |-> "none", ret |-> 0]

\* a thread with an empty mask, no handler and nothing pending
InitSig ==
    sg = [blocked |-> {}, handler |-> FALSE, mask |-> {}, pending |-> {},
          saved |-> <<>>, pc |-> "user", old |-> {}, ret |-> "Ok", tw |-> NoTimedWait]

\* find_free_area has not been called; the address space holds no area
InitFind ==
    ff = [areas |-> {}, called |-> FALSE, hint |-> 0, size |-> 0,
          limit |-> va_range, align |-> PAGE_SIZE_4K, ret |-> [some |-> FALSE, addr |-> 0]]

\* init_stdio: stdin, stdout and stderr are descriptors 0, 1, 2 (the table
\* maps each descriptor in use to the file it refers to) and no call has
\* been made
InitFd ==
    fdt = [table |-> [fd \in 0..2 |-> fd + 1],
           prev  |-> [fd \in 0..2 |-> fd + 1],
           opens |-> 0, op |-> "none", arg |-> 0, file |-> 0, err |-> "Ok", ret |-> 0]

\* rsplit_once('/').map_or(path, |(_, name)| name): what follows the last '/'
file_name(path) ==
    With({i \in 1..Len(path) : path[i] = "/"},
         LAMBDA S : IF S = {} THEN path
                    ELSE SubSeq(path, (CHOOSE i \in S : \A j \in S : j <= i) + 1,
                                Len(path)))

\* the first user task: task 1, the only thread of process 1, runs InitPath
\* in address space 1.  process[t] is the process of thread t (0: not in a
\* thread group), aspace[p] the address space of process p, image[a] the
\* program mapped in address space a (<<>>: no user area), mem[a] the
\* user words of a that the parent_tid and child_tid arguments point to
FirstTask ==
    [next_id |-> 2, tasks |-> {1}, procs |-> {1},
     parent |-> [p \in TaskIds |-> 0],
     process |-> [t \in TaskIds |-> IF t = 1 THEN 1 ELSE 0],
     name |-> [t \in TaskIds |-> IF t = 1 THEN file_name(InitPath) ELSE <<>>],
     set_child_tid |-> [t \in TaskIds |-> FALSE],
     aspace |-> [p \in TaskIds |-> IF p = 1 THEN 1 ELSE 0],
     image |-> [a \in TaskIds |-> IF a = 1 THEN InitPath ELSE <<>>],
     exe_path |-> [p \in TaskIds |-> IF p = 1 THEN InitPath ELSE <<>>],
     mem |-> [a \in TaskIds |-> [ptid |-> 0, ctid |-> 0]]]

\* no call has been made
InitClone ==
    cl = [st |-> FirstTask, prev |-> FirstTask, execs |-> 0,
          last |-> [op |-> "none", tid |-> 0, flags |-> {}, path |-> <<>>,
                    err |-> "Ok", ret |-> 0]]

\* Directory::new: nothing read, the cache empty, no call made.  dir is the
\* directory, pos the number of entries that read_dir has given,
\* last_dirent the cached entry (its index in dir, 0: None), out the entries
\* that calls have returned to the user
InitDents ==
    gd = [dir |-> <<>>, pos |-> 0, last_dirent |-> 0, out |-> <<>>,
          len |-> 0, err |-> "none", ret |-> 0]

\* the flag is clear, task t1 runs on the CPU, no task is inside
\* access_user_memory, no fault has been taken.  depth[t] is the number of
\* access_user_memory scopes task t is inside, gone the tasks that exited,
\* seen what the last kernel-mode page fault found: the task it was taken
\* in, the flag it read and whether the task was inside a scope
InitUserMem ==
    um = [flag |-> FALSE, cur |-> "t1", depth |-> [t \in Threads |-> 0], gone |-> {},
          halted |-> FALSE,
          seen |-> [task |-> "none", flag |-> FALSE, inside |-> FALSE]]

\* the mutex of the address space is free, no page of the area is
\* resident, and no thread is in check_null_terminated.  elem is the index
\* of the element start.add(len) and page the index of the next page to
\* check
InitProbe ==
    pb = [owner |-> "none", resident |-> {},
          th |-> [t \in Threads |-> [pc |-> "user", elem |-> 0, page |-> 0, ret |-> "none"]]]

\* both threads run user code and have taken no fault.  va and access are
\* the fault a thread took last and lazy tells whether, when it was taken,
\* va was a page not yet resident of an Alloc area made with populate =
\* false whose flags permit the access
InitTrap ==
    tr = [t \in Threads |-> [pc |-> "user", va |-> 0, access |-> {}, lazy |-> FALSE]]

\* the parent runs with stdin, stdout and stderr open and has no child.
\* table[p] names the FD table of process p (0: none) and open[i] is the
\* set of descriptors open in table i
InitFiles ==
    ft = [alive |-> [p \in Procs |-> p = "parent"],
          table |-> [p \in Procs |-> IF p = "parent" THEN 1 ELSE 0],
          open  |-> [i \in 1..2 |-> IF i = 1 THEN 0..2 ELSE {}]]

\* the parent has one running child and neither of its threads has called
\* sys_waitpid; snap[t] is the children vector of the call of thread t
InitWaiters ==
    wp = [zombie |-> FALSE, children |-> {"child"}, frees |-> 0,
          th |-> [t \in Threads |-> [pc |-> "user", nohang |-> FALSE, snap |-> {},
                                     ret |-> "none", calls |-> 0]]]

\* ProcessData::new: an empty heap at USER_HEAP_BASE; no thread is in sys_brk
InitBrk ==
    br = [heap_bottom |-> USER_HEAP_BASE, heap_top |-> USER_HEAP_BASE,
          th |-> [t \in Threads |-> [pc |-> "user", addr |-> 0, return_val |-> 0,
                                     ret |-> -1]]]

\* TimeStat::new.  now is the clock; t0 the time of reset, last the time of
\* the last switch, user and kernel the time spent in each mode since t0, and
\* mode the mode the task runs in ("new": before reset)
InitTime ==
    tst = [utime_ns |-> 0, stime_ns |-> 0, user_timestamp |-> 0, kernel_timestamp |-> 0,
           now |-> 0, mode |-> "new", t0 |-> 0, last |-> 0, user |-> 0, kernel |-> 0]

Init ==
    /\ InitMM /\ InitFork /\ InitFutex /\ InitPipe /\ InitProc /\ InitSig /\ InitFind /\ InitFd
    /\ InitClone /\ InitDents /\ InitUserMem /\ InitProbe /\ InitTrap /\ InitFiles /\ InitWaiters /\ InitBrk /\ InitTime

\* a kernel panic stops the machine
Running == mmlast.res # "Panic"

\* calls are made on an address space while no clone of it is being held
Callable(i) == Running /\ asp[i].live /\ ~asp[2].live

\* the call op(start, size, ..) on address space i returned r
Commit(i, r, op, start, size, populate, hit) ==
    /\ asp' = [asp EXCEPT ![i] = [live |-> TRUE, areas |-> r.areas, pt |-> r.pt]]
    /\ frames' = r.g
    /\ mmlast' = Call(op, i, start, size, populate, hit, r.res)

MapLinear(i) ==
    /\ Callable(i)
    /\ \E a \in ArgChoices, flags \in MapFlags, paddr \in {0, 2048} :
          Commit(i, map_linear(asp[i].areas, asp[i].pt, frames, a[1], paddr, a[2], flags, a[3]),
                 "map_linear", a[1], a[2], FALSE, {})
    /\ UNCHANGED NotMM

MapAlloc(i) ==
    /\ Callable(i)
    /\ \E a \in ArgChoices, flags \in MapFlags, populate \in BOOLEAN :
          Commit(i, map_alloc(asp[i].areas, asp[i].pt, frames, a[1], a[2], flags, populate, a[3]),
                 "map_alloc", a[1], a[2], populate, {})
    /\ UNCHANGED NotMM

Unmap(i) ==
    /\ Callable(i)
    /\ \E rg \in RangeChoices :
          Commit(i, unmap(asp[i].areas, asp[i].pt, frames, rg[1], rg[2]),
                 "unmap", rg[1], rg[2], FALSE, HitTags(asp[i].areas, asp[i].pt, rg[1], rg[2]))
    /\ UNCHANGED NotMM

Protect(i) ==
    /\ Callable(i)
    /\ \E a \in ArgChoices, flags \in ProtFlags :
          Commit(i, protect(asp[i].areas, asp[i].pt, frames, a[1], a[2], flags, a[3]),
                 "protect", a[1], a[2], FALSE, {})
    /\ UNCHANGED NotMM

\* an access the page table does not permit: the MMU traps only on these
Traps(pt, vaddr, access) ==
    ~(PtMapped(pt, vaddr) /\ access \subseteq PtEntry(pt, vaddr).flags)

PageFault(i) ==
    /\ Callable(i)
    /\ \E vaddr \in FaultChoices, access \in FlagChoices :
          /\ Traps(asp[i].pt, vaddr, access)
          /\ Commit(i, handle_page_fault(asp[i].areas, asp[i].pt, frames, vaddr, access),
                    "handle_page_fault", vaddr, 0, FALSE, {})
    /\ UNCHANGED NotMM

\* clone_or_err returned r: the clone is held as address space 2
CommitClone(r) ==
    /\ asp' = [asp EXCEPT ![2] = IF r.res = "Ok"
                                 THEN [live |-> TRUE, areas |-> r.areas, pt |-> r.pt]
                                 ELSE NoASpace]
    /\ frames' = r.g
    /\ mmlast' = Call("clone_or_err", 1, 0, 0, FALSE, {}, r.res)

Clone ==
    /\ Running /\ asp[1].live /\ ~asp[2].live
    /\ CommitClone(clone_or_err(asp[1].areas, asp[1].pt, frames))
    /\ UNCHANGED NotMM

\* address space i has been cleared with result r; `kept` goes on as
\* address space 1
CommitDrop(i, r, kept) ==
    /\ asp' = [asp EXCEPT ![1] = kept, ![2] = NoASpace]
    /\ frames' = r.g
    /\ mmlast' = Call("drop", i, 0, 0, FALSE, {}, r.res)

\* Drop for AddrSpace: clear().  The clone is dropped ...
DropClone ==
    /\ Running /\ asp[2].live
    /\ CommitDrop(2, MS_clear(asp[2].areas, asp[2].pt, frames), asp[1])
    /\ UNCHANGED NotMM

\* ... or the source is dropped and the calls go on against the clone
DropSource ==
    /\ Running /\ asp[2].live
    /\ CommitDrop(1, MS_clear(asp[1].areas, asp[1].pt, frames), asp[2])
    /\ UNCHANGED NotMM

NextMM ==
    \/ MapLinear(1)
    \/ MapAlloc(1)
    \/ Unmap(1)
    \/ Protect(1)
    \/ PageFault(1)
    \/ Clone
    \/ DropClone
    \/ DropSource

SpecMM == Init /\ [][NextMM]_vars

\* C24: in every state of an address space and for every address and
\* access, handle_page_fault returns true exactly when the address lies in
\* an Alloc area made with populate = false whose flags hold every bit of
\* the access and a frame has been installed for the page; otherwise it
\* returns false and leaves the page table as it is.  The areas never change
FaultHandledIffLazy ==
    \A i \in ASpaces :
        asp[i].live =>
            \A vaddr \in FaultChoices, access \in FlagChoices :
                With(handle_page_fault(asp[i].areas, asp[i].pt, frames, vaddr, access),
                     LAMBDA r :
                        /\ r.areas = asp[i].areas
                        /\ (r.res = "Ok") <=>
                              /\ \E a \in asp[i].areas :
                                    /\ a.start <= vaddr /\ vaddr < AreaEnd(a)
                                    /\ a.kind = "Alloc" /\ ~a.populate
                                    /\ access \subseteq a.flags
                              /\ ~PtMapped(asp[i].pt, vaddr)
                              /\ PtMapped(r.pt, vaddr)
                              /\ PtEntry(r.pt, vaddr).frame \in r.g.used \ frames.used
                        /\ r.res # "Ok" => r.pt = asp[i].pt)

\* a fault has been handled by installing a frame while the address space
\* also holds a Linear area, on which every fault is refused
FaultHandledIffLazy_witness ==
    /\ mmlast.op = "handle_page_fault"
    /\ mmlast.res = "Ok"
    /\ PtMapped(asp[1].pt, mmlast.start)
    /\ \E a \in asp[1].areas : a.kind = "Linear"

(***************************************************************************)
(* Specification SpecFork: a process maps Alloc areas, forks with or       *)
(* without CLONE_VM, and parent and child load and store user memory.      *)
(* fk.child is the address space the child runs in (0: no child),          *)
(* fk.shadow[i][va] the byte last stored to va through address space i,    *)
(* fk.since the stores made since the clone, fk.read[p] the last load of   *)
(* process p.  A page holds one byte.                                      *)
(***************************************************************************)
SpaceOf(p) == IF p = "parent" THEN 1 ELSE fk.child

Alive(p) ==
    /\ Running
    /\ p \notin fk.dead
    /\ SpaceOf(p) # 0
    /\ asp[SpaceOf(p)].live

OtherProc(p) == IF p = "parent" THEN "child" ELSE "parent"

OtherSpace(i) == IF i = 1 THEN 2 ELSE 1

\* a user access to va: the MMU traps unless the page table permits it, and
\* the trap handler asks the address space of the current task to handle it
UserAccess(i, va, access) ==
    IF Traps(asp[i].pt, va, access)
    THEN handle_page_fault(asp[i].areas, asp[i].pt, frames, va, access)
    ELSE Res("Ok", asp[i].areas, asp[i].pt, frames)

\* process p stores val to va; r is the address space after the access.  The
\* trap handler exits the task when the fault is not handled
FWrite(p) ==
    /\ Alive(p)
    /\ \E va \in ForkPages, val \in ForkBytes :
          \E r \in {UserAccess(SpaceOf(p), va, {"WRITE"})} :
             /\ asp' = [asp EXCEPT ![SpaceOf(p)] =
                                        [live |-> TRUE, areas |-> r.areas, pt |-> r.pt]]
             /\ frames' = IF r.res = "Ok"
                          THEN [r.g EXCEPT !.data[PtEntry(r.pt, va).frame] = val]
                          ELSE r.g
             /\ mmlast' = Call("store", SpaceOf(p), va, 0, FALSE, {}, r.res)
             /\ fk' = IF r.res = "Ok"
                      THEN [fk EXCEPT !.shadow[SpaceOf(p)][va] = val,
                                      !.since = @ \cup {<<p, va>>}]
                      ELSE [fk EXCEPT !.dead = @ \cup {p}]
    /\ UNCHANGED NotFork

\* process p loads from va; r is the address space after the access
FRead(p) ==
    /\ Alive(p)
    /\ \E va \in ForkPages :
          \E r \in {UserAccess(SpaceOf(p), va, {"READ"})} :
             /\ asp' = [asp EXCEPT ![SpaceOf(p)] =
                                        [live |-> TRUE, areas |-> r.areas, pt |-> r.pt]]
             /\ frames' = r.g
             /\ mmlast' = Call("load", SpaceOf(p), va, 0, FALSE, {}, r.res)
             /\ fk' = IF r.res = "Ok"
                      THEN [fk EXCEPT !.read[p] =
                                [va    |-> va,
                                 val   |-> r.g.data[PtEntry(r.pt, va).frame],
                                 want  |-> fk.shadow[SpaceOf(p)][va],
                                 other |-> fk.shadow[OtherSpace(SpaceOf(p))][va],
                                 after |-> <<OtherProc(p), va>> \in fk.since]]
                      ELSE [fk EXCEPT !.dead = @ \cup {p}]
    /\ UNCHANGED NotFork

\* the parent maps an Alloc area
FMap ==
    /\ Alive("parent")
    /\ Callable(1)
    /\ \E size \in ForkSizes, flags \in MapFlags, populate \in BOOLEAN :
          Commit(1, map_alloc(asp[1].areas, asp[1].pt, frames, VaStart, size, flags,
                              populate, PAGE_SIZE_4K),
                 "map_alloc", VaStart, size, populate, {})
    /\ UNCHANGED NotMM

\* sys_clone has made a child process running in address space i
Forked(i) ==
    [fk EXCEPT !.child = i, !.shadow[2] = fk.shadow[1], !.since = {},
               !.read = [p \in Procs |-> NoRead]]

\* sys_clone.  With CLONE_VM the child holds the parent's address space;
\* without it the child gets the clone r of the address space
\* (copy_from_kernel adds the kernel's entries, outside the user range)
sys_clone ==
    /\ Alive("parent")
    /\ fk.child = 0
    /\ \E vm \in BOOLEAN :
          IF vm
          THEN /\ mmlast' = Call("sys_clone", 1, 0, 0, FALSE, {}, "Ok")
               /\ fk' = Forked(1)
               /\ UNCHANGED <<asp, frames>>
          ELSE \E r \in {clone_or_err(asp[1].areas, asp[1].pt, frames)} :
                  /\ CommitClone(r)
                  /\ fk' = IF r.res = "Ok" THEN Forked(2) ELSE fk
    /\ UNCHANGED NotFork

\* the child process is freed; an address space of its own is dropped
ChildExit ==
    /\ Running
    /\ fk.child # 0
    /\ IF fk.child = 2
       THEN CommitDrop(2, MS_clear(asp[2].areas, asp[2].pt, frames), asp[1])
       ELSE /\ mmlast' = Call("drop", 1, 0, 0, FALSE, {}, "Ok")
            /\ UNCHANGED <<asp, frames>>
    /\ fk' = [fk EXCEPT !.child = 0, !.dead = @ \ {"child"}, !.since = {},
                        !.shadow[2] = [va \in ForkPages |-> 0],
                        !.read = [p \in Procs |-> NoRead]]
    /\ UNCHANGED NotFork

NextFork ==
    \/ FMap
    \/ sys_clone
    \/ FWrite("parent")
    \/ FWrite("child")
    \/ FRead("parent")
    \/ FRead("child")
    \/ ChildExit

SpecFork == Init /\ [][NextFork]_vars

(***************************************************************************)
(* Properties of the address space.                                        *)
(***************************************************************************)

\* C1: in every reachable state, whatever calls of map_linear, map_alloc,
\* unmap, protect and clone_or_err succeeded or failed before, no two
\* distinct areas of an address space have intersecting address ranges
AreasDisjoint ==
    \A i \in ASpaces : \A a, b \in asp[i].areas : a # b => ~Intersects(a, b)

\* protect has split an area: the address space holds three areas side by side
AreasDisjoint_witness ==
    /\ mmlast.op = "protect"
    /\ Cardinality(asp[1].areas) >= 3

\* C9: when map_alloc with populate = true returns success, every page of
\* [start, start + size) is mapped in the page table
PopulateMapsAll ==
    (mmlast.op = "map_alloc" /\ mmlast.populate)
        => PtFullyMapped(asp[mmlast.asp].pt, mmlast.start, mmlast.start + mmlast.size)

\* C10: after unmap(start, size) returns success no page of the range is
\* mapped in the page table and no area intersects the range
UnmapClears ==
    mmlast.op = "unmap"
        => /\ ~PtOverlaps(asp[mmlast.asp].pt, mmlast.start, mmlast.start + mmlast.size)
           /\ \A a \in asp[mmlast.asp].areas :
                  ~Intersects(a, [start |-> mmlast.start, size |-> mmlast.size])

\* an unmap has cut through a Linear, a populated and a faulted-in lazy area
UnmapClears_witness ==
    /\ mmlast.op = "unmap"
    /\ mmlast.hit = {"Linear", "Populated", "Faulted"}

\* C2: while a child forked without CLONE_VM runs, every load returns the
\* byte last stored through the loading process's own address space (the
\* byte copied at the clone if there was no store since): a store by the
\* child is never seen by the parent, nor one by the parent by the child
ForkIsolated ==
    fk.child = 2 =>
        \A p \in Procs : fk.read[p].va # 0 => fk.read[p].val = fk.read[p].want

\* parent and child have each loaded from a page after the other one stored
\* a different byte to it
ForkIsolated_witness ==
    /\ fk.child = 2
    /\ \A p \in Procs : /\ fk.read[p].va # 0
                        /\ fk.read[p].after
                        /\ fk.read[p].val # fk.read[p].other

\* the resident pages of a page table
Resident(pt) == {[va |-> e.va, size |-> e.size] : e \in pt}

\* C27: in every state of an address space and for every range R, flags
\* and populate, when map_alloc(R) succeeds (R then overlaps no area that
\* was there) the unmap(R) that follows it succeeds and leaves the area set
\* and the set of resident pages as they were before the map_alloc
MapUnmapRestores ==
    \A i \in ASpaces :
        asp[i].live =>
            \A a \in ArgChoices, flags \in MapFlags, populate \in BOOLEAN :
                With(map_alloc(asp[i].areas, asp[i].pt, frames, a[1], a[2], flags, populate, a[3]),
                     LAMBDA m :
                        m.res = "Ok" =>
                            With(unmap(m.areas, m.pt, m.g, a[1], a[2]),
                                 LAMBDA u :
                                    /\ u.res = "Ok"
                                    /\ u.areas = asp[i].areas
                                    /\ Resident(u.pt) = Resident(asp[i].pt)))

\* the address space holds areas and resident pages, and a map_alloc with
\* populate = true succeeds on it and makes more pages resident
MapUnmapRestores_witness ==
    /\ asp[1].live
    /\ asp[1].areas # {}
    /\ asp[1].pt # {}
    /\ \E a \in ArgChoices, flags \in MapFlags :
          With(map_alloc(asp[1].areas, asp[1].pt, frames, a[1], a[2], flags, TRUE, a[3]),
               LAMBDA m : m.res = "Ok" /\ Resident(m.pt) # Resident(asp[1].pt))

\* C28: in every state of an address space and for every start address,
\* unmap(start, 0) returns success and changes neither the area set nor
\* the page table
UnmapEmptyIsNoop ==
    \A i \in ASpaces :
        asp[i].live =>
            \A start \in FaultChoices :
                With(unmap(asp[i].areas, asp[i].pt, frames, start, 0),
                     LAMBDA u :
                        /\ u.res = "Ok"
                        /\ u.areas = asp[i].areas
                        /\ u.pt = asp[i].pt)

\* C30: in every reachable state every area of an address space lies
\* inside its va_range, and map_linear and map_alloc with a range that
\* va_range does not contain fail with InvalidInput and add no area
AreasInsideRange ==
    \A i \in ASpaces :
        asp[i].live =>
            /\ \A a \in asp[i].areas : va_range.start <= a.start /\ AreaEnd(a) <= va_range.end
            /\ \A o \in OutsideChoices, flags \in MapFlags :
                  /\ \A populate \in BOOLEAN :
                        With(map_alloc(asp[i].areas, asp[i].pt, frames, o[1], o[2], flags,
                                       populate, o[3]),
                             LAMBDA m : m.res = "InvalidInput" /\ m.areas = asp[i].areas)
                  /\ With(map_linear(asp[i].areas, asp[i].pt, frames, o[1], 0, o[2], flags, o[3]),
                          LAMBDA m : m.res = "InvalidInput" /\ m.areas = asp[i].areas)

\* what a load from the mapped address va gives: the byte of the frame for
\* an Alloc page, the physical address read for a linearly mapped page
PageRead(pt, g, va) ==
    IF PtEntry(pt, va).frame = 0
    THEN [paddr |-> va - PtEntry(pt, va).off, byte |-> 0]
    ELSE [paddr |-> -1, byte |-> g.data[PtEntry(pt, va).frame]]

\* range, flags and backend kind of the areas
AreaShapes(areas) ==
    {[start |-> a.start, size |-> a.size, flags |-> a.flags, kind |-> a.kind] : a \in areas}

\* C26: immediately after clone_or_err succeeds the new address space has
\* the same areas (range, flags, backend kind) as the source, and every
\* page that is resident in the source is resident in the new address space
\* and reads the same bytes there
CloneReadsSame ==
    mmlast.op = "clone_or_err" =>
        /\ asp[2].live
        /\ AreaShapes(asp[2].areas) = AreaShapes(asp[1].areas)
        /\ \A e \in asp[1].pt :
              \A va \in {e.va, e.va + e.size - PAGE_SIZE_4K} :
                  /\ PtMapped(asp[2].pt, va)
                  /\ PageRead(asp[2].pt, frames, va) = PageRead(asp[1].pt, frames, va)

\* the clone has copied a page to which a byte had been stored, into a frame
\* of its own
CloneReadsSame_witness ==
    /\ mmlast.op = "clone_or_err"
    /\ \E e \in asp[1].pt :
          /\ e.frame # 0
          /\ frames.data[e.frame] # 0
          /\ PtMapped(asp[2].pt, e.va)
          /\ PtEntry(asp[2].pt, e.va).frame # e.frame

(***************************************************************************)
(* Specification SpecFutex: sys_futex on one futex word.  Thread A stores  *)
(* to the word and calls FUTEX_WAIT, thread B stores to the word and       *)
(* calls FUTEX_WAKE.  The tasks are preemptible, so what the code does     *)
(* under one lock is one step and nothing more.  fx.table tells whether    *)
(* the futex table holds a wait queue for the address, fx.guards counts    *)
(* the WaitQueueGuards alive, fx.queue is the wait queue.                  *)
(***************************************************************************)

\* Drop for WaitQueueGuard; queue is the wait queue when the guard is
\* dropped, and Arc::strong_count counts the table's reference and the guards
WaitQueueGuard_drop(queue) ==
    [fx EXCEPT !.guards = @ - 1,
               !.table = IF (IF fx.table THEN 1 ELSE 0) + fx.guards = 1 /\ queue = <<>>
                         THEN FALSE ELSE @]

\* a user store of thread A to the futex word
AStore ==
    /\ fx.a.pc = "user"
    /\ \E v \in FutexVals : fx' = [fx EXCEPT !.word = v]
    /\ UNCHANGED NotFutex

\* FUTEX_WAIT: *uaddr.get_as_ref()? != value
WaitCompare ==
    /\ fx.a.pc = "user"
    /\ fx.a.calls < MaxWaits
    /\ \E value \in FutexVals, timed \in BOOLEAN :
          fx' = IF fx.word # value
                THEN [fx EXCEPT !.a.ret = "EAGAIN", !.a.calls = @ + 1]
                ELSE [fx EXCEPT !.a.pc = "compared", !.a.val = value,
                                !.a.timed = timed, !.a.ret = "none"]
    /\ UNCHANGED NotFutex

\* FUTEX_WAIT: futex_table.get_or_insert(addr)
get_or_insert ==
    /\ fx.a.pc = "compared"
    /\ fx' = [fx EXCEPT !.table = TRUE, !.guards = @ + 1, !.a.pc = "got"]
    /\ UNCHANGED NotFutex

\* FUTEX_WAIT: wq.wait() or wq.wait_timeout(..) puts the task on the queue
WaitBlock ==
    /\ fx.a.pc = "got"
    /\ fx' = [fx EXCEPT !.queue = Append(@, "A"), !.a.pc = "waiting"]
    /\ UNCHANGED NotFutex

\* wait_timeout: the timer expires and takes the task off the queue
WaitTimeout ==
    /\ fx.a.pc = "waiting"
    /\ fx.a.timed
    /\ fx' = [fx EXCEPT !.queue = <<>>, !.a.pc = "woken"]
    /\ UNCHANGED NotFutex

\* FUTEX_WAIT: the task runs again, drops its guard and returns Ok(0)
WaitReturn ==
    /\ fx.a.pc = "woken"
    /\ fx' = [WaitQueueGuard_drop(fx.queue) EXCEPT !.a.pc = "user", !.a.ret = "Ok",
                                                   !.a.calls = @ + 1]
    /\ UNCHANGED NotFutex

\* a user store of thread B to the futex word
BStore ==
    /\ fx.b.pc = "user"
    /\ fx.b.rounds < MaxRounds
    /\ \E v \in FutexVals : fx' = [fx EXCEPT !.word = v, !.b.pc = "stored"]
    /\ UNCHANGED NotFutex

\* FUTEX_WAKE: futex_table.get(addr)
WakeGet ==
    /\ fx.b.pc = "stored"
    /\ \E value \in WakeCounts :
          fx' = IF fx.table
                THEN [fx EXCEPT !.guards = @ + 1, !.b.pc = "notify", !.b.value = value,
                                !.b.i = 0, !.b.count = 0]
                ELSE [fx EXCEPT !.b.pc = "yield", !.b.value = value,
                                !.b.i = 0, !.b.count = 0]
    /\ UNCHANGED NotFutex

\* FUTEX_WAKE: one turn of the loop over wq.notify_one(false)
WakeNotify ==
    /\ fx.b.pc = "notify"
    /\ fx' = IF fx.b.i < fx.b.value /\ fx.queue # <<>>
             THEN [fx EXCEPT !.queue = Tail(@), !.a.pc = "woken",
                             !.b.i = @ + 1, !.b.count = @ + 1]
             ELSE [fx EXCEPT !.b.pc = "drop"]
    /\ UNCHANGED NotFutex

\* FUTEX_WAKE: the guard goes out of scope
WakeDrop ==
    /\ fx.b.pc = "drop"
    /\ fx' = [WaitQueueGuard_drop(fx.queue) EXCEPT !.b.pc = "yield"]
    /\ UNCHANGED NotFutex

\* FUTEX_WAKE: axtask::yield_now(); Ok(count)
WakeReturn ==
    /\ fx.b.pc = "yield"
    /\ fx' = [fx EXCEPT !.b.pc = "user", !.b.rounds = @ + 1]
    /\ UNCHANGED NotFutex

\* thread B makes no further call
BExit ==
    /\ fx.b.pc = "user"
    /\ fx.b.rounds >= 1
    /\ fx' = [fx EXCEPT !.b.pc = "exited"]
    /\ UNCHANGED NotFutex

NextFutex ==
    \/ AStore
    \/ WaitCompare
    \/ get_or_insert
    \/ WaitBlock
    \/ WaitTimeout
    \/ WaitReturn
    \/ BStore
    \/ WakeGet
    \/ WakeNotify
    \/ WakeDrop
    \/ WakeReturn
    \/ BExit

SpecFutex == Init /\ [][NextFutex]_vars

\* C3: FUTEX_WAIT compares and enqueues atomically with respect to
\* FUTEX_WAKE: when thread B has stored a value different from val and its
\* FUTEX_WAKE after that store has returned, a FUTEX_WAIT(val) without
\* timeout of thread A that compared before the store is not left blocked
\* with B making no further call
WaitNotLost ==
    ~ /\ fx.a.pc = "waiting"
      /\ ~fx.a.timed
      /\ fx.word # fx.a.val
      /\ fx.b.pc = "exited"

\* C25: whenever no thread is blocked on the futex address and no futex
\* operation on it is in progress (both threads are outside sys_futex, the
\* wait queue is empty and no WaitQueueGuard is alive), the futex table
\* holds no entry for the address
FutexEntryRemoved ==
    (/\ fx.a.pc = "user"
     /\ fx.b.pc \in {"user", "exited"}
     /\ fx.queue = <<>>
     /\ fx.guards = 0)
        => ~fx.table

(***************************************************************************)
(* Specification SpecPipe: one pipe, a writer task on its write end and a  *)
(* reader task on its read end.  What Pipe::read and Pipe::write do while  *)
(* they hold the lock of the ring buffer is one step.  The writer sends    *)
(* the stream Byte(0), Byte(1), ..; pp.sent counts the bytes it has put    *)
(* into the ring buffer, pp.out is what the reads have returned so far.    *)
(* pp.r.len and pp.w.len are the lengths of the buffers of the last read   *)
(* and write (-1: no write yet), yielded tells that the last turn of the   *)
(* loop found nothing to do and called yield_now.                          *)
(***************************************************************************)

\* PipeRingBuffer::write_byte
write_byte(rb, byte) ==
    [arr    |-> [rb.arr EXCEPT ![rb.tail] = byte],
     head   |-> rb.head,
     tail   |-> (rb.tail + 1) % RING_BUFFER_SIZE,
     status |-> IF (rb.tail + 1) % RING_BUFFER_SIZE = rb.head THEN "Full" ELSE "Normal"]

\* PipeRingBuffer::read_byte: the byte is rb.arr[rb.head], the buffer after it is
read_byte(rb) ==
    [arr    |-> rb.arr,
     head   |-> (rb.head + 1) % RING_BUFFER_SIZE,
     tail   |-> rb.tail,
     status |-> IF (rb.head + 1) % RING_BUFFER_SIZE = rb.tail THEN "Empty" ELSE "Normal"]

\* the distance from head to tail, whatever the status
available_read_unchecked(rb) ==
    IF rb.tail > rb.head THEN rb.tail - rb.head
    ELSE rb.tail + RING_BUFFER_SIZE - rb.head

\* PipeRingBuffer::available_read
available_read(rb) ==
    IF rb.status = "Empty" THEN 0
    ELSE IF rb.tail > rb.head THEN rb.tail - rb.head
    ELSE rb.tail + RING_BUFFER_SIZE - rb.head

\* PipeRingBuffer::available_write
available_write(rb) ==
    IF rb.status = "Full" THEN 0 ELSE RING_BUFFER_SIZE - available_read(rb)

\* the byte at position i of the stream the writer sends
Byte(i) == i % BytePeriod

\* n turns of the for loop of Pipe::write, sending the stream from position
\* pos: the first n \div 2 turns, then, from the buffer they leave, the others
RECURSIVE WriteBytes(_, _, _)
WriteBytes(rb, pos, n) ==
    IF n = 0 THEN rb
    ELSE IF n = 1 THEN write_byte(rb, Byte(pos))
    ELSE With(WriteBytes(rb, pos, n \div 2),
              LAMBDA h : IF h.tail < RING_BUFFER_SIZE
                         THEN WriteBytes(h, pos + n \div 2, n - n \div 2) ELSE h)

\* n turns of the for loop of Pipe::read, t being the buffer and the bytes
\* taken before them: the first n \div 2 turns, then, from what they leave,
\* the others
RECURSIVE ReadBytes(_, _)
ReadBytes(t, n) ==
    IF n = 0 THEN t
    ELSE IF n = 1 THEN [rb |-> read_byte(t.rb), got |-> Append(t.got, t.rb.arr[t.rb.head])]
    ELSE With(ReadBytes(t, n \div 2),
              LAMBDA h : IF h.rb.head < RING_BUFFER_SIZE
                         THEN ReadBytes(h, n - n \div 2) ELSE h)

\* Pipe::read up to its loop
ReadCall ==
    /\ pp.r.pc = "idle"
    /\ ~pp.rdropped
    /\ \E len \in ReadSizes :
          pp' = IF len = 0 THEN [pp EXCEPT !.r.len = 0, !.r.ret = 0, !.r.yielded = FALSE]
                ELSE [pp EXCEPT !.r.pc = "loop", !.r.len = len, !.r.yielded = FALSE]
    /\ UNCHANGED NotPipe

\* a read that returns 0 from an empty buffer whether or not the write end
\* is open
ReadLoop_eof_open ==
    /\ pp.r.pc = "loop"
    /\ pp' = With(Min(available_read(pp.rb), pp.r.len),
                  LAMBDA read_size :
                    IF read_size = 0
                    THEN [pp EXCEPT !.r.pc = "idle", !.r.ret = 0]
                    ELSE With(ReadBytes([rb |-> pp.rb, got |-> <<>>], read_size),
                              LAMBDA t : [pp EXCEPT !.rb = t.rb, !.out = @ \o t.got,
                                                    !.r.pc = "idle", !.r.ret = read_size]))
    /\ UNCHANGED NotPipe

\* one turn of the loop of Pipe::read; with read_size > 0, read_size bytes
\* are taken from the buffer as t
ReadLoop ==
    /\ pp.r.pc = "loop"
    /\ pp' = With(Min(available_read(pp.rb), pp.r.len),
                  LAMBDA read_size :
                    IF read_size = 0
                    THEN IF pp.wdropped THEN [pp EXCEPT !.r.pc = "idle", !.r.ret = 0]
                         ELSE [pp EXCEPT !.r.yielded = TRUE]
                    ELSE With(ReadBytes([rb |-> pp.rb, got |-> <<>>], read_size),
                              LAMBDA t : [pp EXCEPT !.rb = t.rb, !.out = @ \o t.got,
                                                    !.r.pc = "idle", !.r.ret = read_size]))
    /\ UNCHANGED NotPipe

\* Pipe::write up to its loop
WriteCall ==
    /\ pp.w.pc = "idle"
    /\ ~pp.wdropped
    /\ \E len \in WriteSizes :
          /\ pp.sent + len <= MaxWritten
          /\ pp' = IF pp.rdropped
                   THEN [pp EXCEPT !.w.len = len, !.w.err = "EPIPE", !.w.ret = -1,
                                   !.w.yielded = FALSE]
                   ELSE IF len = 0
                   THEN [pp EXCEPT !.w.len = len, !.w.err = "Ok", !.w.ret = 0,
                                   !.w.yielded = FALSE]
                   ELSE [pp EXCEPT !.w.len = len, !.w.err = "Ok", !.w.yielded = FALSE,
                                   !.w.pc = "loop", !.w.total_len = len, !.w.write_size = 0]
    /\ UNCHANGED NotPipe

\* one turn of the loop of Pipe::write; with loop_write > 0 the for loop
\* returns from inside when the buffer has more room than there are bytes left
WriteLoop ==
    /\ pp.w.pc = "loop"
    /\ pp' = With(available_write(pp.rb),
                  LAMBDA loop_write :
                    IF loop_write = 0
                    THEN IF pp.rdropped
                         THEN [pp EXCEPT !.w.pc = "idle", !.w.ret = pp.w.write_size]
                         ELSE [pp EXCEPT !.w.yielded = TRUE]
                    ELSE IF pp.w.total_len - pp.w.write_size < loop_write
                    THEN [pp EXCEPT !.w.yielded = FALSE,
                                    !.rb = WriteBytes(pp.rb, pp.sent,
                                                      pp.w.total_len - pp.w.write_size),
                                    !.sent = @ + (pp.w.total_len - pp.w.write_size),
                                    !.w.write_size = pp.w.total_len,
                                    !.w.pc = "idle", !.w.ret = pp.w.total_len]
                    ELSE [pp EXCEPT !.w.yielded = FALSE,
                                    !.rb = WriteBytes(pp.rb, pp.sent, loop_write),
                                    !.sent = @ + loop_write,
                                    !.w.write_size = @ + loop_write])
    /\ UNCHANGED NotPipe

\* the read end is dropped
CloseRead ==
    /\ pp.r.pc = "idle"
    /\ ~pp.rdropped
    /\ pp' = [pp EXCEPT !.rdropped = TRUE]
    /\ UNCHANGED NotPipe

\* the write end is dropped
CloseWrite ==
    /\ pp.w.pc = "idle"
    /\ ~pp.wdropped
    /\ pp' = [pp EXCEPT !.wdropped = TRUE]
    /\ UNCHANGED NotPipe

NextPipe ==
    \/ ReadCall
    \/ ReadLoop
    \/ WriteCall
    \/ WriteLoop
    \/ CloseRead
    \/ CloseWrite

SpecPipe == Init /\ [][NextPipe]_vars

\* C4: the bytes returned by the reads so far are a prefix of the bytes the
\* writes have accepted so far: byte k of the output is byte k of the stream
\* the writer sends, and no more bytes came out than went in
PipeFifo ==
    /\ Len(pp.out) <= pp.sent
    /\ \A k \in 1..Len(pp.out) : pp.out[k] = Byte(k - 1)

\* a write of more bytes than the ring buffer holds is under way or done and
\* the reads have already returned more bytes than the buffer holds, so the
\* buffer has wrapped around
PipeFifo_witness ==
    /\ pp.w.total_len > RING_BUFFER_SIZE
    /\ Len(pp.out) > RING_BUFFER_SIZE
    /\ pp.rb.tail < pp.rb.head

\* C15: a read into a non-empty buffer returns 0 only when the ring buffer
\* is empty and the write end has been closed (with the write end open and
\* the buffer empty the read yields and stays in its loop), and by then the
\* reads have returned every byte that was written
ReadZeroAtEof ==
    (pp.r.pc = "idle" /\ pp.r.len > 0 /\ pp.r.ret = 0)
        => /\ pp.rb.status = "Empty"
           /\ available_read(pp.rb) = 0
           /\ pp.wdropped
           /\ Len(pp.out) = pp.sent

\* a read that had yielded on the empty buffer while the write end was open
\* has returned 0 after the write end was closed, more bytes than the ring
\* buffer holds having gone through the pipe
ReadZeroAtEof_witness ==
    /\ pp.r.pc = "idle" /\ pp.r.len > 0 /\ pp.r.ret = 0
    /\ pp.r.yielded
    /\ Len(pp.out) > RING_BUFFER_SIZE

\* C16: a write whose ring buffer becomes full after k of its n bytes are
\* stored (0 < k < n) returns k: the writer yields in its loop only while it
\* has stored nothing yet
WriteBlocksEmptyHanded ==
    (pp.w.pc = "loop" /\ pp.w.yielded) => pp.w.write_size = 0

\* C17: a write of zero bytes returns 0, whatever the state of the ring
\* buffer and whether the read end is open or closed
WriteZeroReturnsZero ==
    (pp.w.pc = "idle" /\ pp.w.len = 0) => (pp.w.err = "Ok" /\ pp.w.ret = 0)

(***************************************************************************)
(* Specification SpecProc: a parent process forks a child process; the     *)
(* threads t1 and t2 of the child exit, are killed or fault, the parent    *)
(* waits for the child.  The tasks are preemptible: every call that        *)
(* do_exit makes is one step.  pr.threads is the thread group of the       *)
(* child, pr.th[t] the position of thread t (arg is what it passed to      *)
(* exit or exit_group), pr.kill[t] tells whether                           *)
(* SIGKILL is pending for t, pr.sent are the signals sent to the parent,   *)
(* pr.w is the parent's waitpid call.                                      *)
(***************************************************************************)

\* the exit code sys_exit that passes to do_exit without the shift
sys_exit_unshifted(c) == c

\* sys_exit(exit_code) and sys_exit_group(exit_code): do_exit(exit_code << 8, ..).
\* The shift is on an i32: the low 24 bits of exit_code move up, bit 23
\* becoming the sign
sys_exit_code(c) ==
    IF c % 16777216 >= 8388608 THEN ((c % 16777216) - 16777216) * 256
    ELSE (c % 16777216) * 256

\* the threads that have entered do_exit and not yet ended
InExit == {t \in Threads : pr.th[t].pc \notin {"none", "user", "wait", "dead"}}

\* sys_clone by the parent: the low byte of the flags is the exit signal
Spawn ==
    /\ ~pr.forked
    /\ \E sig \in ExitSignals :
          pr' = [pr EXCEPT !.forked = TRUE, !.exit_signal = sig, !.threads = {"t1"},
                           !.th["t1"].pc = "user"]
    /\ UNCHANGED NotProc

\* sys_clone with CLONE_THREAD by thread t1 of the child
CloneThread ==
    /\ pr.th["t1"].pc = "user"
    /\ pr.th["t2"].pc = "none"
    /\ pr' = [pr EXCEPT !.threads = @ \cup {"t2"}, !.th["t2"].pc = "user"]
    /\ UNCHANGED NotProc

\* thread t enters do_exit(exit_code, group_exit)
EnterExit(t, exit_code, group_exit) ==
    [pr EXCEPT !.th[t].pc = "exit", !.th[t].code = exit_code, !.th[t].group = group_exit,
               !.overlap = @ \/ InExit # {}]

sys_exit(t) ==
    /\ pr.th[t].pc = "user"
    /\ \E c \in ExitCodes :
          pr' = [EnterExit(t, sys_exit_code(c), FALSE) EXCEPT !.th[t].arg = c]
    /\ UNCHANGED NotProc

sys_exit_group(t) ==
    /\ pr.th[t].pc = "user"
    /\ \E c \in ExitCodes :
          pr' = [EnterExit(t, sys_exit_code(c), TRUE) EXCEPT !.th[t].arg = c]
    /\ UNCHANGED NotProc

\* check_signals on the return to user mode: SIGKILL terminates
check_signals(t) ==
    /\ pr.th[t].pc = "user"
    /\ pr.kill[t]
    /\ pr' = [EnterExit(t, 128 + SIGKILL, TRUE) EXCEPT !.kill[t] = FALSE]
    /\ UNCHANGED NotProc

\* a user page fault that the address space does not handle: axtask::exit(-1)
SegFault(t) ==
    /\ pr.th[t].pc = "user"
    /\ pr' = [pr EXCEPT !.th[t].pc = "dead", !.th[t].fault = TRUE]
    /\ UNCHANGED NotProc

\* do_exit: thread.exit(exit_code), true for the last thread of the group
ThreadExit(t) ==
    /\ pr.th[t].pc = "exit"
    /\ pr' = [pr EXCEPT !.exit_code = IF pr.group_exited THEN @ ELSE pr.th[t].code,
                        !.threads = @ \ {t},
                        !.th[t].pc = IF pr.threads \ {t} = {} THEN "last" ELSE "group"]
    /\ UNCHANGED NotProc

\* do_exit of the last thread: process.exit()
ProcessExit(t) ==
    /\ pr.th[t].pc = "last"
    /\ pr' = [pr EXCEPT !.zombie = TRUE, !.th[t].pc = "signal"]
    /\ UNCHANGED NotProc

\* do_exit of the last thread: send_signal_process(&parent, exit_signal)
SendExitSignal(t) ==
    /\ pr.th[t].pc = "signal"
    /\ pr' = [pr EXCEPT !.sent = IF pr.exit_signal # 0 THEN @ \cup {pr.exit_signal} ELSE @,
                        !.th[t].pc = "notify"]
    /\ UNCHANGED NotProc

\* do_exit going on without notifying the parent
NotifyParent_skipped(t) ==
    /\ pr.th[t].pc = "notify"
    /\ pr' = [pr EXCEPT !.th[t].pc = "clear"]
    /\ UNCHANGED NotProc

\* do_exit of the last thread: child_exit_wq.notify_all(false)
NotifyParent(t) ==
    /\ pr.th[t].pc = "notify"
    /\ pr' = [pr EXCEPT !.notified = TRUE, !.th[t].pc = "clear"]
    /\ UNCHANGED NotProc

\* do_exit of the last thread: process.exit() once more, FD_TABLE.clear()
ExitClear(t) ==
    /\ pr.th[t].pc = "clear"
    /\ pr' = [pr EXCEPT !.zombie = TRUE, !.th[t].pc = "group"]
    /\ UNCHANGED NotProc

\* do_exit: group_exit && !process.is_group_exited()
GroupExit(t) ==
    /\ pr.th[t].pc = "group"
    /\ pr' = IF pr.th[t].group /\ ~pr.group_exited
             THEN [pr EXCEPT !.group_exited = TRUE,
                             !.kill = [u \in Threads |-> @[u] \/ u \in pr.threads],
                             !.th[t].pc = "task_exit"]
             ELSE [pr EXCEPT !.th[t].pc = "task_exit"]
    /\ UNCHANGED NotProc

\* do_exit: axtask::exit(exit_code)
TaskExit(t) ==
    /\ pr.th[t].pc = "task_exit"
    /\ pr' = [pr EXCEPT !.th[t].pc = "dead"]
    /\ UNCHANGED NotProc

\* sys_waitpid(-1, &s, options) up to its loop
WaitCall ==
    /\ pr.w.pc = "user"
    /\ \E nohang \in BOOLEAN :
          pr' = IF ~pr.forked \/ pr.freed
                THEN [pr EXCEPT !.w.ret = "ECHILD"]
                ELSE [pr EXCEPT !.w.pc = "loop", !.w.nohang = nohang, !.w.ret = "none",
                                !.w.yielded = FALSE]
    /\ UNCHANGED NotProc

\* one turn of the loop of sys_waitpid
WaitLoop ==
    /\ pr.w.pc = "loop"
    /\ pr' = IF pr.zombie
             THEN [pr EXCEPT !.freed = TRUE, !.w.pc = "user", !.w.ret = "pid",
                             !.w.status = pr.exit_code]
             ELSE IF pr.w.nohang THEN [pr EXCEPT !.w.pc = "user", !.w.ret = "0"]
             ELSE [pr EXCEPT !.w.yielded = TRUE]
    /\ UNCHANGED NotProc

\* a step of thread t inside do_exit
ExitStep(t) ==
    \/ ThreadExit(t)
    \/ ProcessExit(t)
    \/ SendExitSignal(t)
    \/ NotifyParent(t)
    \/ ExitClear(t)
    \/ GroupExit(t)
    \/ TaskExit(t)

NextProc ==
    \/ Spawn
    \/ CloneThread
    \/ \E t \in Threads : sys_exit(t)
    \/ \E t \in Threads : sys_exit_group(t)
    \/ \E t \in Threads : check_signals(t)
    \/ \E t \in Threads : SegFault(t)
    \/ \E t \in Threads : ExitStep(t)
    \/ WaitCall
    \/ WaitLoop

SpecProc == Init /\ [][NextProc]_vars

\* the scheduler runs every runnable task again and again: a thread inside
\* do_exit goes on, and so does the loop of sys_waitpid, which only yields
SpecWait ==
    /\ Init
    /\ [][NextProc]_vars
    /\ \A t \in Threads : WF_vars(ExitStep(t))
    /\ WF_vars(WaitLoop)

\* the threads of the child that were ever created
Started == {t \in Threads : pr.th[t].pc # "none"}

\* C5: the child is never a zombie while a thread is left in its thread
\* group, and once every thread of it has gone through do_exit it is a
\* zombie, its exit signal (if any) has been sent to the parent and the
\* parent's child_exit_wq has been notified
ZombieAtLastExit ==
    /\ pr.zombie => pr.threads = {}
    /\ (Started # {} /\ \A t \in Started : pr.th[t].pc = "dead" /\ ~pr.th[t].fault)
          => /\ pr.zombie
             /\ pr.exit_signal # 0 => pr.exit_signal \in pr.sent
             /\ pr.notified

\* two threads were inside do_exit at the same time, both have gone through
\* it and the parent has been sent SIGCHLD
ZombieAtLastExit_witness ==
    /\ pr.overlap
    /\ \A t \in Threads : pr.th[t].pc = "dead" /\ ~pr.th[t].fault
    /\ pr.zombie
    /\ SIGCHLD \in pr.sent

\* the only thread of the child has called exit(c) and the parent is inside
\* a blocking waitpid(-1, &s, 0)
ExitedAndWaiting(c) ==
    /\ pr.th["t2"].pc = "none"
    /\ pr.th["t1"].pc \notin {"none", "user"}
    /\ pr.th["t1"].arg = c
    /\ ~pr.th["t1"].group
    /\ pr.w.pc = "loop"
    /\ ~pr.w.nohang

\* waitpid has returned the child's pid and stored c << 8
WaitedFor(c) ==
    /\ pr.w.pc = "user"
    /\ pr.w.ret = "pid"
    /\ pr.w.status = c * 256

\* C6: when the only thread of the child has called exit(c), 0 <= c <= 255,
\* a blocking waitpid(-1, &s, 0) of the parent eventually returns the pid of
\* the child with s = c << 8
WaitReturnsStatus ==
    \A c \in ExitCodes : ExitedAndWaiting(c) ~> WaitedFor(c)

\* the parent yielded in waitpid before the single-threaded child was a
\* zombie, and has then got the status 42 << 8
WaitReturnsStatus_witness ==
    /\ pr.th["t2"].pc = "none"
    /\ pr.w.ret = "pid"
    /\ pr.w.yielded
    /\ ~pr.w.nohang
    /\ pr.w.status = 10752

\* C8: when a thread has died of a user page fault that was not handled and
\* the tasks of all threads of the process have ended, the process is a
\* zombie that the parent can wait for
SegvMakesZombie ==
    (/\ \E t \in Started : pr.th[t].fault
     /\ \A t \in Started : pr.th[t].pc = "dead")
        => pr.zombie

(***************************************************************************)
(* Specification SpecGroup: the threads of SpecProc may also block in the  *)
(* kernel.  pr.th[t].pc = "wait" when t is inside sys_futex(FUTEX_WAIT)    *)
(* without a timeout, on a word that is no thread's clear_child_tid.  The  *)
(* futex table belongs to the process: only a thread of the child wakes t. *)
(***************************************************************************)

\* sys_futex(uaddr, FUTEX_WAIT, value, NULL) with *uaddr = value: wq.wait()
FutexWait(t) ==
    /\ pr.th[t].pc = "user"
    /\ pr' = [pr EXCEPT !.th[t].pc = "wait"]
    /\ UNCHANGED NotProc

\* sys_futex(uaddr, FUTEX_WAKE, 1) by a thread u of the process: notify_one
\* wakes t, which returns to user mode
FutexWake(t) ==
    /\ pr.th[t].pc = "wait"
    /\ \E u \in pr.threads \ {t} : pr.th[u].pc = "user"
    /\ pr' = [pr EXCEPT !.th[t].pc = "user"]
    /\ UNCHANGED NotProc

NextGroup ==
    \/ NextProc
    \/ \E t \in Threads : FutexWait(t)
    \/ \E t \in Threads : FutexWake(t)

\* the scheduler runs every runnable task again and again: a thread inside
\* do_exit goes on, and a thread in user mode is interrupted by the timer
\* and goes through post_trap_callback, which checks its signals
SpecGroup ==
    /\ Init
    /\ [][NextGroup]_vars
    /\ \A t \in Threads : WF_vars(ExitStep(t))
    /\ \A t \in Threads : WF_vars(check_signals(t))

\* thread t has called exit_group
CalledExitGroup(t) ==
    /\ pr.th[t].pc = "exit"
    /\ pr.th[t].group
    /\ pr.th[t].arg >= 0

\* C20: when a thread of the process has called exit_group, eventually the
\* tasks of all threads of the process have ended and the process is a
\* zombie
GroupExitEndsAll ==
    \A t \in Threads :
        CalledExitGroup(t) ~> (pr.zombie /\ \A u \in Started : pr.th[u].pc = "dead")

(***************************************************************************)
(* Specification SpecSig: the blocked-signal mask of one thread.           *)
(* sg.blocked is the mask, sg.handler tells whether SIGCHLD has a handler  *)
(* and sg.mask is the mask of its action, sg.pending the pending signals,  *)
(* sg.saved the masks saved in the signal frames on the user stack (the    *)
(* innermost first), sg.pc is "suspend" inside sigsuspend and sg.old the   *)
(* mask that sigsuspend replaced.                                          *)
(***************************************************************************)

\* sys_rt_sigprocmask(how, set, oldset): the new mask by `how`, or EINVAL
\* with the mask left alone when how is none of the three
sys_rt_sigprocmask ==
    /\ sg.pc = "user"
    /\ \E how \in Hows :
       \E set \in IF how = "other" THEN {{}} ELSE SUBSET Signals :
          sg' = IF how = "SIG_BLOCK"
                THEN [sg EXCEPT !.blocked = @ \cup set, !.ret = "Ok"]
                ELSE IF how = "SIG_UNBLOCK"
                THEN [sg EXCEPT !.blocked = @ \ set, !.ret = "Ok"]
                ELSE IF how = "SIG_SETMASK"
                THEN [sg EXCEPT !.blocked = set, !.ret = "Ok"]
                ELSE [sg EXCEPT !.ret = "EINVAL"]
    /\ UNCHANGED NotSig

\* sys_rt_sigaction(signo, act, oldact): SIGKILL and SIGSTOP take no action
sys_rt_sigaction ==
    /\ sg.pc = "user"
    /\ \E signo \in Signals :
       \E mask \in IF signo \in {SIGKILL, SIGSTOP} THEN {{}} ELSE SUBSET Signals :
          sg' = IF signo \in {SIGKILL, SIGSTOP} THEN [sg EXCEPT !.ret = "EINVAL"]
                ELSE [sg EXCEPT !.handler = TRUE, !.mask = mask, !.ret = "Ok"]
    /\ UNCHANGED NotSig

\* send_signal_thread: SIGCHLD is sent to the thread
SendSignal ==
    /\ SIGCHLD \notin sg.pending
    /\ sg' = [sg EXCEPT !.pending = @ \cup {SIGCHLD}]
    /\ UNCHANGED NotSig

\* the handler of signo is entered with `restore` as the mask to go back to
EnterHandler(signo, restore) ==
    [sg EXCEPT !.pending = @ \ {signo},
               !.saved = <<restore>> \o @,
               !.blocked = @ \cup sg.mask \cup {signo},
               !.pc = "user"]

\* post_trap_callback: check_signals(tf, None) on the return to user mode
HandlerEntry ==
    /\ sg.pc = "user"
    /\ sg.handler
    /\ SIGCHLD \in sg.pending \ sg.blocked
    /\ Len(sg.saved) < MaxHandlers
    /\ sg' = EnterHandler(SIGCHLD, sg.blocked)
    /\ UNCHANGED NotSig

\* sys_rt_sigreturn: the saved mask comes back
sys_rt_sigreturn ==
    /\ sg.pc = "user"
    /\ sg.saved # <<>>
    /\ sg' = [sg EXCEPT !.blocked = Head(sg.saved), !.saved = Tail(@)]
    /\ UNCHANGED NotSig

\* sys_rt_sigsuspend(set) up to its loop
sys_rt_sigsuspend ==
    /\ sg.pc = "user"
    /\ \E set \in SUBSET Signals :
          sg' = [sg EXCEPT !.old = sg.blocked, !.blocked = set \ {SIGKILL, SIGSTOP},
                           !.pc = "suspend", !.ret = "EINTR"]
    /\ UNCHANGED NotSig

\* the loop of sys_rt_sigsuspend: check_signals(tf, Some(old_blocked))
SuspendLoop ==
    /\ sg.pc = "suspend"
    /\ sg.handler
    /\ SIGCHLD \in sg.pending \ sg.blocked
    /\ Len(sg.saved) < MaxHandlers
    /\ sg' = EnterHandler(SIGCHLD, sg.old)
    /\ UNCHANGED NotSig

NextSig ==
    \/ sys_rt_sigprocmask
    \/ sys_rt_sigaction
    \/ SendSignal
    \/ HandlerEntry
    \/ sys_rt_sigreturn
    \/ sys_rt_sigsuspend
    \/ SuspendLoop

SpecSig == Init /\ [][NextSig]_vars

\* C7: the blocked-signal mask of the thread never holds SIGKILL or SIGSTOP
KillStopNeverBlocked ==
    sg.blocked \cap {SIGKILL, SIGSTOP} = {}

(***************************************************************************)
(* Specification SpecSuspend: a thread with some mask and some action for  *)
(* SIGCHLD calls sigsuspend and is sent SIGCHLD and SIGCONT.  SIGCONT has  *)
(* no handler and is in no mask: its action is Continue.                   *)
(***************************************************************************)

\* send_signal_thread: SIGCONT is sent to the thread
SendCont ==
    /\ SIGCONT \notin sg.pending
    /\ sg' = [sg EXCEPT !.pending = @ \cup {SIGCONT}]
    /\ UNCHANGED NotSig

\* post_trap_callback: check_signals(tf, None) takes SIGCONT, whose action
\* Continue does nothing
ContinueEntry ==
    /\ sg.pc = "user"
    /\ SIGCONT \in sg.pending \ sg.blocked
    /\ sg' = [sg EXCEPT !.pending = @ \ {SIGCONT}]
    /\ UNCHANGED NotSig

\* the loop of sys_rt_sigsuspend: check_signals(tf, Some(old_blocked)) takes
\* SIGCONT and returns true, the loop ends and sigsuspend returns
SuspendContinue ==
    /\ sg.pc = "suspend"
    /\ SIGCONT \in sg.pending \ sg.blocked
    /\ sg' = [sg EXCEPT !.pending = @ \ {SIGCONT}, !.pc = "user"]
    /\ UNCHANGED NotSig

\* the thread has some mask, and SIGCHLD has no handler or a handler with
\* some mask
InitSuspend ==
    /\ InitMM /\ InitFork /\ InitFutex /\ InitPipe /\ InitProc /\ InitFind /\ InitFd
    /\ InitClone /\ InitDents /\ InitUserMem /\ InitProbe /\ InitTrap /\ InitFiles /\ InitWaiters /\ InitBrk /\ InitTime
    /\ \E blocked \in SUBSET Signals, handler \in BOOLEAN, mask \in SUBSET Signals :
          /\ ~handler => mask = {}
          /\ sg = [blocked |-> blocked, handler |-> handler, mask |-> mask,
                   pending |-> {}, saved |-> <<>>, pc |-> "user", old |-> {},
                   ret |-> "Ok", tw |-> NoTimedWait]

NextSuspend ==
    \/ SendSignal
    \/ SendCont
    \/ HandlerEntry
    \/ ContinueEntry
    \/ sys_rt_sigreturn
    \/ sys_rt_sigsuspend
    \/ SuspendLoop
    \/ SuspendContinue

SpecSuspend == InitSuspend /\ [][NextSuspend]_vars

\* C21: when sigsuspend ends, either the thread is back in user code with
\* the mask it had before the call, or it enters a handler whose signal
\* frame holds that mask, which sigreturn puts back
SuspendRestoresMask ==
    [][(sg.pc = "suspend" /\ sg'.pc = "user")
          => IF Len(sg'.saved) > Len(sg.saved)
             THEN Head(sg'.saved) = sg.old
             ELSE sg'.blocked = sg.old]_vars

(***************************************************************************)
(* Specification SpecTimedWait: a thread calls sigtimedwait and is sent    *)
(* SIGCHLD and SIGCONT.  sg.pc is "timedwait" inside wait_timeout, sg.tw   *)
(* the call and its result.                                                *)
(***************************************************************************)

\* sys_rt_sigtimedwait(set, info, timeout) up to wait_timeout
sys_rt_sigtimedwait ==
    /\ sg.pc = "user"
    /\ \E set \in SUBSET (Signals \cup {SIGCONT}), timeout \in BOOLEAN :
          sg' = [sg EXCEPT !.pc = "timedwait",
                           !.tw = [NoTimedWait EXCEPT !.set = set, !.timeout = timeout]]
    /\ UNCHANGED NotSig

\* wait_timeout returns Some(sig) for a pending signal of the set:
\* sys_rt_sigtimedwait stores it through info and returns Ok(0)
TimedWaitTake ==
    /\ sg.pc = "timedwait"
    /\ \E sig \in sg.pending \cap sg.tw.set :
          sg' = [sg EXCEPT !.pending = @ \ {sig}, !.pc = "user",
                           !.tw.sig = sig, !.tw.info = sig, !.tw.err = "Ok", !.tw.ret = 0]
    /\ UNCHANGED NotSig

\* wait_timeout returns None when the timeout expires with no signal of the
\* set pending: sys_rt_sigtimedwait returns EAGAIN
TimedWaitExpire ==
    /\ sg.pc = "timedwait"
    /\ sg.tw.timeout
    /\ sg.pending \cap sg.tw.set = {}
    /\ sg' = [sg EXCEPT !.pc = "user", !.tw.err = "EAGAIN", !.tw.ret = -1]
    /\ UNCHANGED NotSig

NextTimedWait ==
    \/ SendSignal
    \/ SendCont
    \/ sys_rt_sigtimedwait
    \/ TimedWaitTake
    \/ TimedWaitExpire

SpecTimedWait == Init /\ [][NextTimedWait]_vars

\* C22: when sigtimedwait has returned after a signal of its set arrived,
\* it has returned the number of that signal, which is in the set and in
\* 1..64; when the timeout expired first it has returned EAGAIN
TimedWaitReturnsSigno ==
    (sg.pc = "user" /\ sg.tw.err # "none")
        => IF sg.tw.sig # 0
           THEN /\ sg.tw.err = "Ok"
                /\ sg.tw.ret = sg.tw.sig
                /\ sg.tw.sig \in sg.tw.set
                /\ sg.tw.sig \in 1..64
           ELSE sg.tw.err = "EAGAIN"

(***************************************************************************)
(* Specification SpecFind: find_free_area on an address space that holds   *)
(* any set of disjoint areas of whole pages.                               *)
(***************************************************************************)

\* the address space holds the areas of one of the area sets
InitAreas ==
    /\ InitMM /\ InitFork /\ InitFutex /\ InitPipe /\ InitProc /\ InitSig /\ InitFd
    /\ InitClone /\ InitDents /\ InitUserMem /\ InitProbe /\ InitTrap /\ InitFiles /\ InitWaiters /\ InitBrk /\ InitTime
    /\ \E A \in FindAreaSets :
          ff = [areas |-> A, called |-> FALSE, hint |-> 0, size |-> 0,
                limit |-> va_range, align |-> PAGE_SIZE_4K,
                ret |-> [some |-> FALSE, addr |-> 0]]

FindFreeArea ==
    /\ \E hint \in FindHints, size \in FindSizes, limit \in FindLimits, align \in FindAligns :
          ff' = [areas |-> ff.areas, called |-> TRUE, hint |-> hint, size |-> size,
                 limit |-> limit, align |-> align,
                 ret |-> find_free_area(ff.areas, hint, size, limit, align)]
    /\ UNCHANGED NotFind

SpecFind == InitAreas /\ [][FindFreeArea]_vars

\* C11: when find_free_area(hint, n, limit, align) returns Some(s), the
\* range [s, s + n) intersects no area of the address space
FindAvoidsAreas ==
    (ff.called /\ ff.ret.some)
        => \A a \in ff.areas : ~Intersects(a, [start |-> ff.ret.addr, size |-> ff.size])

\* C12: when find_free_area(hint, n, limit, align) returns Some(s), then
\* s >= hint, s >= limit.start, s + n <= limit.end and s is a multiple of
\* align
FindWithinLimit ==
    (ff.called /\ ff.ret.some)
        => /\ ff.ret.addr >= ff.hint
           /\ ff.ret.addr >= ff.limit.start
           /\ ff.ret.addr + ff.size <= ff.limit.end
           /\ is_aligned(ff.ret.addr, ff.align)

\* C29: find_free_area(hint, 0, limit, align) returns Some(hint), for every
\* area set, every alignment and every hint
FindEmptyReturnsHint ==
    (ff.called /\ ff.size = 0) => (ff.ret.some /\ ff.ret.addr = ff.hint)

(***************************************************************************)
(* Specification SpecFd: calls on the FD table of a process, one at a      *)
(* time.  fdt.table is the table, fdt.prev the table before the last call  *)
(* (before the dup when a dup is followed by the close of the descriptor   *)
(* it returned, fdt.op = "dup_close"), fdt.arg and fdt.file the descriptor *)
(* and the file of the call and fdt.ret what it returned.                  *)
(***************************************************************************)

\* the table after init_stdio, or a table that 1021 opens and some closes
\* have left full but for the descriptors of `free`
InitTables ==
    /\ InitMM /\ InitFork /\ InitFutex /\ InitPipe /\ InitProc /\ InitSig /\ InitFind
    /\ InitClone /\ InitDents /\ InitUserMem /\ InitProbe /\ InitTrap /\ InitFiles /\ InitWaiters /\ InitBrk /\ InitTime
    /\ \E full \in BOOLEAN, free \in SUBSET FdProbes :
          /\ ~full => free = {}
          /\ \E t \in {[fd \in IF full THEN (0..(AX_FILE_LIMIT - 1)) \ free ELSE 0..2 |->
                            IF fd <= 2 THEN fd + 1 ELSE 9]} :
                fdt = [table |-> t, prev |-> t, opens |-> 0, op |-> "none", arg |-> 0,
                       file |-> 0, err |-> "Ok", ret |-> 0]

\* the descriptors of [0, AX_FILE_LIMIT) that the table does not hold
Unused(table) == (0..(AX_FILE_LIMIT - 1)) \ DOMAIN table

\* the table with file f installed at descriptor id
Installed(table, id, f) ==
    [fd \in DOMAIN table \cup {id} |-> IF fd = id THEN f ELSE table[fd]]

\* the table with descriptor id removed
Removed(table, id) == [fd \in DOMAIN table \ {id} |-> table[fd]]

\* an add that takes the highest unused descriptor
add_file_like_highest(table, f) ==
    IF Unused(table) = {} THEN [err |-> "EMFILE", ret |-> -1, table |-> table]
    ELSE With(CHOOSE fd \in Unused(table) : \A x \in Unused(table) : x <= fd,
              LAMBDA id : [err |-> "Ok", ret |-> id, table |-> Installed(table, id, f)])

\* add_file_like(f): FD_TABLE.write().add(f), the smallest unused id, or EMFILE
add_file_like(table, f) ==
    IF Unused(table) = {} THEN [err |-> "EMFILE", ret |-> -1, table |-> table]
    ELSE With(CHOOSE fd \in Unused(table) : \A x \in Unused(table) : fd <= x,
              LAMBDA id : [err |-> "Ok", ret |-> id, table |-> Installed(table, id, f)])

\* a file is opened: FileLike::add_to_fd_table
AddFileLike ==
    /\ fdt.opens < MaxOpens
    /\ \E f \in FdFiles :
          \E r \in {add_file_like(fdt.table, f)} :
             fdt' = [table |-> r.table, prev |-> fdt.table, opens |-> fdt.opens + 1,
                     op |-> "add", arg |-> 0, file |-> f, err |-> r.err, ret |-> r.ret]
    /\ UNCHANGED NotFd

\* a close that leaves the descriptor open
sys_close_keeps ==
    /\ \E fd \in FdCloseArgs :
          fdt' = IF fd \notin DOMAIN fdt.table
                 THEN [fdt EXCEPT !.prev = fdt.table, !.op = "close", !.arg = fd, !.file = 0,
                                  !.err = "EBADF", !.ret = -1]
                 ELSE [fdt EXCEPT !.prev = IF fdt.op = "dup" /\ fdt.err = "Ok" /\ fdt.ret = fd
                                           THEN fdt.prev ELSE fdt.table,
                                  !.op = IF fdt.op = "dup" /\ fdt.err = "Ok" /\ fdt.ret = fd
                                         THEN "dup_close" ELSE "close",
                                  !.arg = fd, !.file = fdt.table[fd], !.err = "Ok", !.ret = 0]
    /\ UNCHANGED NotFd

\* sys_close(fd): close_file_like(fd), FD_TABLE.write().remove(fd) or EBADF
sys_close ==
    /\ \E fd \in FdCloseArgs :
          fdt' = IF fd \notin DOMAIN fdt.table
                 THEN [fdt EXCEPT !.prev = fdt.table, !.op = "close", !.arg = fd, !.file = 0,
                                  !.err = "EBADF", !.ret = -1]
                 ELSE [fdt EXCEPT !.table = Removed(@, fd),
                                  !.prev = IF fdt.op = "dup" /\ fdt.err = "Ok" /\ fdt.ret = fd
                                           THEN fdt.prev ELSE fdt.table,
                                  !.op = IF fdt.op = "dup" /\ fdt.err = "Ok" /\ fdt.ret = fd
                                         THEN "dup_close" ELSE "close",
                                  !.arg = fd, !.file = fdt.table[fd], !.err = "Ok", !.ret = 0]
    /\ UNCHANGED NotFd

\* sys_dup(old_fd): dup_fd, get_file_like(old_fd) and add_file_like of the file
sys_dup ==
    /\ fdt.opens < MaxOpens
    /\ \E old_fd \in FdDupArgs :
          fdt' = IF old_fd \notin DOMAIN fdt.table
                 THEN [fdt EXCEPT !.prev = fdt.table, !.op = "dup", !.arg = old_fd,
                                  !.file = 0, !.err = "EBADF", !.ret = -1]
                 ELSE With(add_file_like(fdt.table, fdt.table[old_fd]),
                           LAMBDA r : [table |-> r.table, prev |-> fdt.table,
                                       opens |-> fdt.opens + 1, op |-> "dup",
                                       arg |-> old_fd, file |-> fdt.table[old_fd],
                                       err |-> r.err, ret |-> r.ret])
    /\ UNCHANGED NotFd

NextFd ==
    \/ AddFileLike
    \/ sys_close
    \/ sys_dup

SpecFd == InitTables /\ [][NextFd]_vars

\* the descriptors that were unused before the last call
FreeBefore == Unused(fdt.prev)

DupCloseRestores ==
    fdt.op = "dup_close" => fdt.table = fdt.prev

\* the dup took a descriptor below others in use, and the close gave it back
DupCloseRestores_witness ==
    /\ fdt.op = "dup_close"
    /\ fdt.arg = 3
    /\ 3 \notin DOMAIN fdt.table
    /\ 4 \in DOMAIN fdt.table

(***************************************************************************)
(* Specification SpecClone: the tasks of the system call sys_clone and     *)
(* sys_execve, and leave.  A system call that fails or returns is one      *)
(* step.  cl.st is the state, cl.prev the state before the last step and   *)
(* cl.last the call of the last step: the calling task, its arguments and  *)
(* its result (err "Ok" and ret 0 for an execve that has entered the new   *)
(* program), cl.execs the number of sys_execve calls made.                 *)
(***************************************************************************)

\* process.threads(): the threads of process p
threads(st, p) == {u \in st.tasks : st.process[u] = p}

\* sys_clone(flags, ..) by task t without CLONE_PARENT; ptid_ok and ctid_ok
\* tell whether parent_tid and child_tid point to user memory, nomem
\* whether clone_or_err runs out of memory.  The result is [err, ret, st]
sys_clone_result_any(st, t, flags, ptid_ok, ctid_ok, nomem) ==
    IF "THREAD" \in flags /\ {"VM", "SIGHAND"} \cap flags = {}
    THEN [err |-> "EINVAL", ret |-> -1, st |-> st]
    ELSE [err |-> "Ok", ret |-> st.next_id,
          st |-> [st EXCEPT !.next_id = @ + 1, !.tasks = @ \cup {st.next_id},
                            !.process[st.next_id] = st.process[t],
                            !.name[st.next_id] = st.name[t]]]

sys_clone_result(st, t, flags, ptid_ok, ctid_ok, nomem) ==
    LET tid == st.next_id
        curr == st.process[t]
        \* new_user_task takes the next task id
        made == [st EXCEPT !.next_id = @ + 1]
        \* PARENT_SETTID: the tid is written through parent_tid
        told == IF "PARENT_SETTID" \in flags
                THEN [made EXCEPT !.mem[st.aspace[curr]].ptid = tid]
                ELSE made
        \* the new thread joins `process`; add_thread_to_table, spawn_task
        spawned(s, process) ==
            [s EXCEPT !.tasks = @ \cup {tid},
                      !.process[tid] = process,
                      !.name[tid] = st.name[t],
                      !.set_child_tid[tid] = "CHILD_SETTID" \in flags /\ ctid_ok]
        \* a new process tid, child of `parent`, with address space a
        forked(s, parent, a) ==
            [s EXCEPT !.procs = @ \cup {tid},
                      !.parent[tid] = parent,
                      !.aspace[tid] = a,
                      !.exe_path[tid] = st.exe_path[curr]]
    IN  IF "THREAD" \in flags /\ ~({"VM", "SIGHAND"} \subseteq flags)
        THEN [err |-> "EINVAL", ret |-> -1, st |-> st]
        ELSE IF "CHILD_SETTID" \in flags /\ ~ctid_ok
        THEN [err |-> "EFAULT", ret |-> -1, st |-> st]
        ELSE IF "PARENT_SETTID" \in flags /\ ~ptid_ok
        THEN [err |-> "EFAULT", ret |-> -1, st |-> made]
        ELSE IF "THREAD" \in flags
        THEN [err |-> "Ok", ret |-> tid, st |-> spawned(told, curr)]
        ELSE IF "VM" \in flags
        THEN [err |-> "Ok", ret |-> tid,
              st |-> spawned(forked(told, curr, st.aspace[curr]), tid)]
        ELSE IF nomem
        THEN [err |-> "ENOMEM", ret |-> -1, st |-> told]
        ELSE [err |-> "Ok", ret |-> tid,
              st |-> spawned(forked([told EXCEPT
                                        !.image[tid] = told.image[st.aspace[curr]],
                                        !.mem[tid] = told.mem[st.aspace[curr]]],
                                    curr, tid), tid)]

\* sys_execve(path, argv, envp) by task t, arg0 being argv[0]
sys_execve_any(st, t, path, arg0) ==
    LET p == st.process[t]
        a == st.aspace[p]
        unmapped == [st EXCEPT !.image[a] = <<>>,
                               !.mem[a] = [ptid |-> 0, ctid |-> 0]]
    IN  IF arg0 \notin Loadable
        THEN [err |-> "ENOENT", ret |-> -1, st |-> unmapped]
        ELSE [err |-> "Ok", ret |-> 0,
              st |-> [unmapped EXCEPT !.image[a] = arg0,
                                      !.name[t] = file_name(path),
                                      !.exe_path[p] = path]]

sys_execve(st, t, path, arg0) ==
    LET p == st.process[t]
        a == st.aspace[p]
        \* unmap_user_areas
        unmapped == [st EXCEPT !.image[a] = <<>>,
                               !.mem[a] = [ptid |-> 0, ctid |-> 0]]
    IN  IF Cardinality(threads(st, p)) > 1
        THEN [err |-> "EAGAIN", ret |-> -1, st |-> st]
        ELSE IF arg0 \notin Loadable
        THEN [err |-> "ENOENT", ret |-> -1, st |-> unmapped]
        ELSE [err |-> "Ok", ret |-> 0,
              st |-> [unmapped EXCEPT !.image[a] = arg0,
                                      !.name[t] = file_name(path),
                                      !.exe_path[p] = path]]

\* a task calls sys_clone
SysClone ==
    /\ cl.st.next_id <= MaxTasks + 1
    /\ \E t \in cl.st.tasks, flags \in SUBSET CloneFlags :
       \E ptid_ok \in IF "PARENT_SETTID" \in flags THEN BOOLEAN ELSE {TRUE},
          ctid_ok \in IF "CHILD_SETTID" \in flags THEN BOOLEAN ELSE {TRUE},
          nomem \in IF {"THREAD", "VM"} \cap flags = {} THEN BOOLEAN ELSE {FALSE} :
          \E r \in {sys_clone_result(cl.st, t, flags, ptid_ok, ctid_ok, nomem)} :
             cl' = [st |-> r.st, prev |-> cl.st, execs |-> cl.execs,
                    last |-> [op |-> "clone", tid |-> t, flags |-> flags, path |-> <<>>,
                              err |-> r.err, ret |-> r.ret]]
    /\ UNCHANGED NotClone

\* a task calls sys_execve
SysExecve ==
    /\ cl.execs < MaxExecs
    /\ \E t \in cl.st.tasks, path \in ExecPaths, arg0 \in ExecArgs :
          \E r \in {sys_execve(cl.st, t, path, arg0)} :
             cl' = [st |-> r.st, prev |-> cl.st, execs |-> cl.execs + 1,
                    last |-> [op |-> "execve", tid |-> t, flags |-> {}, path |-> path,
                              err |-> r.err, ret |-> r.ret]]
    /\ UNCHANGED NotClone

\* the closure of new_user_task, run when the new task is first scheduled:
\* the task stores its tid through child_tid
TaskEntry ==
    /\ \E t \in cl.st.tasks :
          /\ cl.st.set_child_tid[t]
          /\ cl' = [st |-> [cl.st EXCEPT !.set_child_tid[t] = FALSE,
                                         !.mem[cl.st.aspace[cl.st.process[t]]].ctid = t],
                    prev |-> cl.st, execs |-> cl.execs,
                    last |-> [op |-> "entry", tid |-> t, flags |-> {}, path |-> <<>>,
                              err |-> "Ok", ret |-> 0]]
    /\ UNCHANGED NotClone

\* do_exit by a task: thread.exit() takes it out of its thread group
Leave ==
    /\ \E t \in cl.st.tasks :
          cl' = [st |-> [cl.st EXCEPT !.tasks = @ \ {t}, !.set_child_tid[t] = FALSE],
                 prev |-> cl.st, execs |-> cl.execs,
                 last |-> [op |-> "exit", tid |-> t, flags |-> {}, path |-> <<>>,
                           err |-> "Ok", ret |-> 0]]
    /\ UNCHANGED NotClone

NextClone ==
    \/ SysClone
    \/ SysExecve
    \/ TaskEntry
    \/ Leave

SpecClone == Init /\ [][NextClone]_vars

\* C18: when sys_clone is called with CLONE_THREAD and without CLONE_VM or
\* without CLONE_SIGHAND it returns EINVAL and nothing has changed: no task
\* id was taken, no task, thread or process was made and no user word was
\* written
CloneThreadNeedsVm ==
    (/\ cl.last.op = "clone"
     /\ "THREAD" \in cl.last.flags
     /\ ~({"VM", "SIGHAND"} \subseteq cl.last.flags))
        => /\ cl.last.err = "EINVAL"
           /\ cl.st = cl.prev

\* sys_clone with CLONE_THREAD, CLONE_VM (no CLONE_SIGHAND) and
\* CLONE_PARENT_SETTID was called after a sys_execve and got EINVAL
CloneThreadNeedsVm_witness ==
    /\ cl.last.op = "clone"
    /\ cl.last.flags = {"THREAD", "VM", "PARENT_SETTID"}
    /\ cl.last.err = "EINVAL"
    /\ cl.execs > 0

ExecveErrorKeepsSpace ==
    (cl.last.op = "execve" /\ cl.last.err # "Ok")
        => /\ cl.st.image = cl.prev.image
           /\ cl.st.mem = cl.prev.mem

(***************************************************************************)
(* Specification SpecDents: getdents64 is called again and again with      *)
(* buffers of any length on one open directory, which holds any entries.   *)
(* The call holds the lock of last_dirent from its start to its end, so    *)
(* calls do not overlap and a call is one step.                            *)
(***************************************************************************)

\* DirBuffer::write_entry: the length of the record of an entry whose name
\* has n bytes, NAME_OFFSET + n + 1 rounded up to the alignment 8
d_reclen(n) == ((NAME_OFFSET + n + 1 + 7) \div 8) * 8

\* the loop of sys_getdents64 with `offset` bytes in the buffer: read_dir
\* gives the entries one by one, the first that does not fit is cached
RECURSIVE GetdentsLoop_dropping(_, _, _, _)
GetdentsLoop_dropping(dir, pos, offset, len) ==
    IF pos = Len(dir)
    THEN [pos |-> pos, offset |-> offset, last_dirent |-> 0]
    ELSE IF len - offset < d_reclen(dir[pos + 1])
    THEN [pos |-> pos + 1, offset |-> offset, last_dirent |-> 0]
    ELSE GetdentsLoop_dropping(dir, pos + 1, offset + d_reclen(dir[pos + 1]), len)

RECURSIVE GetdentsLoop(_, _, _, _)
GetdentsLoop(dir, pos, offset, len) ==
    IF pos = Len(dir)
    THEN [pos |-> pos, offset |-> offset, last_dirent |-> 0]
    ELSE IF len - offset < d_reclen(dir[pos + 1])
    THEN [pos |-> pos + 1, offset |-> offset, last_dirent |-> pos + 1]
    ELSE GetdentsLoop(dir, pos + 1, offset + d_reclen(dir[pos + 1]), len)

\* sys_getdents64(fd, buf, len) on the directory g: the state at its return
sys_getdents64(g, len) ==
    IF g.last_dirent # 0 /\ len < d_reclen(g.dir[g.last_dirent])
    THEN [g EXCEPT !.len = len, !.err = "EINVAL", !.ret = -1]
    ELSE With(GetdentsLoop(g.dir, g.pos,
                           IF g.last_dirent # 0 THEN d_reclen(g.dir[g.last_dirent]) ELSE 0,
                           len),
              LAMBDA r :
                 IF r.last_dirent # 0 /\ r.offset = 0
                 THEN [g EXCEPT !.pos = r.pos, !.last_dirent = r.last_dirent,
                                !.len = len, !.err = "EINVAL", !.ret = -1]
                 ELSE [g EXCEPT !.pos = r.pos, !.last_dirent = r.last_dirent,
                                !.len = len, !.err = "Ok", !.ret = r.offset,
                                !.out = @ \o
                                   With(IF g.last_dirent # 0 THEN g.last_dirent
                                        ELSE g.pos + 1,
                                        LAMBDA first :
                                           [i \in 1..((IF r.last_dirent # 0 THEN r.pos - 1
                                                       ELSE r.pos) - first + 1)
                                               |-> first + i - 1])])

\* an open directory with any entries
InitDirs ==
    /\ InitMM /\ InitFork /\ InitFutex /\ InitPipe /\ InitProc /\ InitSig /\ InitFind /\ InitFd
    /\ InitClone /\ InitUserMem /\ InitProbe /\ InitTrap /\ InitFiles /\ InitWaiters /\ InitBrk /\ InitTime
    /\ \E dir \in GdDirs :
          gd = [dir |-> dir, pos |-> 0, last_dirent |-> 0, out |-> <<>>,
                len |-> 0, err |-> "none", ret |-> 0]

Getdents ==
    /\ \E len \in GdLens : gd' = sys_getdents64(gd, len)
    /\ UNCHANGED NotDents

SpecDents == InitDirs /\ [][Getdents]_vars

\* the bytes of the records of the entries first..last of the directory
RECURSIVE RecordBytes(_, _, _)
RecordBytes(dir, first, last) ==
    IF first > last THEN 0 ELSE d_reclen(dir[first]) + RecordBytes(dir, first + 1, last)

\* C23: the entries returned so far are the first entries of the directory,
\* each once and in order; the entries that read_dir has given and that
\* were not returned are the one in the cache, which comes next; a call
\* returns EINVAL only with an entry in the cache that its buffer cannot
\* hold, and a call that succeeds returns no more bytes than its buffer has
GetdentsDeliversOnce ==
    /\ gd.out = [i \in 1..Len(gd.out) |-> i]
    /\ gd.pos <= Len(gd.dir)
    /\ IF gd.last_dirent = 0 THEN gd.pos = Len(gd.out)
       ELSE gd.last_dirent = Len(gd.out) + 1 /\ gd.pos = gd.last_dirent
    /\ gd.err = "EINVAL" => /\ gd.last_dirent # 0
                            /\ gd.len < d_reclen(gd.dir[gd.last_dirent])
    /\ gd.err = "Ok" => /\ gd.ret <= gd.len
                        /\ \E k \in 0..Len(gd.out) :
                              gd.ret = RecordBytes(gd.dir, Len(gd.out) - k + 1, Len(gd.out))

\* a call has returned one entry and cached the next, and a later call
\* whose buffer cannot hold the cached entry has returned EINVAL
GetdentsDeliversOnce_witness ==
    /\ gd.err = "EINVAL"
    /\ Len(gd.out) >= 1
    /\ gd.last_dirent = Len(gd.out) + 1
    /\ gd.len > 0

(***************************************************************************)
(* Specification SpecUserMem: the tasks of one CPU enter and leave         *)
(* access_user_memory and take page faults in kernel mode.  um.flag is     *)
(* the CPU's ACCESSING_USER_MEM, um.cur the task that runs on the CPU.     *)
(* with_current keeps the task from being preempted inside the scope, so   *)
(* the CPU goes to another task only outside a scope or when the task      *)
(* exits.                                                                  *)
(***************************************************************************)
UmRuns(t) == ~um.halted /\ um.cur = t /\ t \notin um.gone

\* the task that runs after t has left the CPU
UmNext(t) ==
    IF \E o \in Threads \ (um.gone \cup {t}) : TRUE
    THEN CHOOSE o \in Threads \ (um.gone \cup {t}) : TRUE
    ELSE "idle"

\* access_user_memory up to the call of f: *v = true
access_user_memory ==
    /\ \E t \in Threads :
          /\ UmRuns(t)
          /\ um.depth[t] < MaxDepth
          /\ um' = [um EXCEPT !.flag = TRUE, !.depth[t] = @ + 1]
    /\ UNCHANGED NotUserMem

\* access_user_memory after f has returned: *v = false
access_user_memory_return ==
    /\ \E t \in Threads :
          /\ UmRuns(t)
          /\ um.depth[t] > 0
          /\ um' = [um EXCEPT !.flag = FALSE, !.depth[t] = @ - 1]
    /\ UNCHANGED NotUserMem

\* handle_page_fault(vaddr, access_flags, is_user = false) in task t: the
\* flag is read; when it is clear the handler returns false and the kernel
\* stops, otherwise the address space handles the fault (handled) or the
\* task exits with axtask::exit(-1) and the CPU goes to the next task
KernelPageFault ==
    /\ \E t \in Threads, handled \in BOOLEAN :
          /\ UmRuns(t)
          /\ um' = [um EXCEPT
                       !.seen = [task |-> t, flag |-> um.flag, inside |-> um.depth[t] > 0],
                       !.halted = ~um.flag,
                       !.gone = IF um.flag /\ ~handled THEN @ \cup {t} ELSE @,
                       !.cur = IF um.flag /\ ~handled THEN UmNext(t) ELSE @]
    /\ UNCHANGED NotUserMem

\* the task yields or is preempted outside access_user_memory
UmSwitch ==
    /\ \E t \in Threads :
          /\ UmRuns(t)
          /\ um.depth[t] = 0
          /\ UmNext(t) # "idle"
          /\ um' = [um EXCEPT !.cur = UmNext(t)]
    /\ UNCHANGED NotUserMem

NextUserMem ==
    \/ access_user_memory
    \/ access_user_memory_return
    \/ KernelPageFault
    \/ UmSwitch

SpecUserMem == Init /\ [][NextUserMem]_vars

\* C31: whenever the page-fault handler reads the flag while task T runs,
\* the flag is true if and only if T is inside access_user_memory
UserMemFlagScoped ==
    um.seen.task # "none" => (um.seen.flag <=> um.seen.inside)

(***************************************************************************)
(* Specification SpecProbe: two threads of one process validate a user     *)
(* string with check_null_terminated.  pb.owner is the holder of the       *)
(* mutex of their address space, pb.resident the resident pages of the     *)
(* lazily populated area that holds the string.  A step is what a thread   *)
(* does between two operations on the mutex.                               *)
(***************************************************************************)

\* check_null_terminated up to the loop; the string starts at element
\* `first` of page 0
ProbeCall(t) ==
    /\ pb.th[t].pc = "user"
    /\ \E first \in 0..(PageElems - 1) :
          pb' = [pb EXCEPT !.th[t] = [pc |-> "loop", elem |-> first, page |-> 0, ret |-> "none"]]
    /\ UNCHANGED NotProbe

\* while ptr >= page: task.task_ext().aspace.lock()
ProbeLock(t) ==
    /\ pb.th[t].pc = "loop"
    /\ pb.th[t].elem >= pb.th[t].page * PageElems
    /\ pb.owner = "none"
    /\ pb' = [pb EXCEPT !.owner = t, !.th[t].pc = "locked"]
    /\ UNCHANGED NotProbe

\* a loop body whose guard lives on after the body
ProbeCheck_holding(t) ==
    /\ pb.th[t].pc = "locked"
    /\ pb' = IF pb.th[t].page >= AreaPages
             THEN [pb EXCEPT !.owner = "none", !.th[t].pc = "user", !.th[t].ret = "EFAULT"]
             ELSE [pb EXCEPT !.th[t].pc = "loop", !.th[t].page = @ + 1]
    /\ UNCHANGED NotProbe

\* the body of the while loop: check_region_access(page) fails with EFAULT
\* or the page is passed; the guard is dropped where the body ends
ProbeCheck(t) ==
    /\ pb.th[t].pc = "locked"
    /\ pb' = IF pb.th[t].page >= AreaPages
             THEN [pb EXCEPT !.owner = "none", !.th[t].pc = "user", !.th[t].ret = "EFAULT"]
             ELSE [pb EXCEPT !.owner = "none", !.th[t].pc = "loop", !.th[t].page = @ + 1]
    /\ UNCHANGED NotProbe

\* ptr.read_volatile(): a page fault when the page is not resident,
\* otherwise the element read is zero (the loop ends) or not (len += 1)
ProbeRead(t) ==
    /\ pb.th[t].pc = "loop"
    /\ pb.th[t].elem < pb.th[t].page * PageElems
    /\ \E zero \in BOOLEAN :
          pb' = IF pb.th[t].elem \div PageElems \notin pb.resident
                THEN [pb EXCEPT !.th[t].pc = "fault"]
                ELSE IF zero THEN [pb EXCEPT !.th[t].pc = "user", !.th[t].ret = "Ok"]
                ELSE [pb EXCEPT !.th[t].elem = @ + 1]
    /\ UNCHANGED NotProbe

\* handle_page_fault: aspace.lock()
ProbeFaultLock(t) ==
    /\ pb.th[t].pc = "fault"
    /\ pb.owner = "none"
    /\ pb' = [pb EXCEPT !.owner = t, !.th[t].pc = "handling"]
    /\ UNCHANGED NotProbe

\* handle_page_fault: the address space maps the page when it is not
\* mapped and a frame is left; the guard is dropped and the read is made
\* again, or the task exits
ProbeFaultHandle(t) ==
    /\ pb.th[t].pc = "handling"
    /\ \E frame \in BOOLEAN :
          pb' = IF frame /\ pb.th[t].elem \div PageElems \notin pb.resident
                THEN [pb EXCEPT !.owner = "none", !.th[t].pc = "loop",
                                !.resident = @ \cup {pb.th[t].elem \div PageElems}]
                ELSE [pb EXCEPT !.owner = "none", !.th[t].pc = "exited"]
    /\ UNCHANGED NotProbe

NextProbe ==
    \E t \in Threads :
        \/ ProbeCall(t)
        \/ ProbeLock(t)
        \/ ProbeCheck(t)
        \/ ProbeRead(t)
        \/ ProbeFaultLock(t)
        \/ ProbeFaultHandle(t)

SpecProbe == Init /\ [][NextProbe]_vars

\* C32: a thread holds the mutex of the address space only inside the body
\* of the page loop and inside the fault handler, never while it reads user
\* memory: a thread that takes a page fault in the probe does not wait for
\* a mutex it holds itself
ProbeHoldsNoMutex ==
    \A t \in Threads : pb.owner = t => pb.th[t].pc \in {"locked", "handling"}

\* a thread handles the fault of its probe under the mutex while the other
\* thread, which faulted in its probe too, waits for the mutex
ProbeHoldsNoMutex_witness ==
    /\ pb.owner = "t1"
    /\ pb.th["t1"].pc = "handling"
    /\ pb.th["t2"].pc = "fault"

(***************************************************************************)
(* Specification SpecTrap: two threads of one process, each on a CPU of    *)
(* its own, access the user memory of address space 1 and take page        *)
(* faults.  A thread traps, and later its handler runs under the mutex of  *)
(* the address space.                                                      *)
(***************************************************************************)

\* thread t accesses va and the MMU traps
UserTrap(t) ==
    /\ Running
    /\ tr[t].pc = "user"
    /\ \E va \in ForkPages, access \in FlagChoices :
          /\ Traps(asp[1].pt, va, access)
          /\ tr' = [tr EXCEPT ![t] =
                       [pc |-> "trapped", va |-> va, access |-> access,
                        lazy |-> /\ ~PtMapped(asp[1].pt, va)
                                 /\ \E a \in MS_find(asp[1].areas, va) :
                                       /\ a.kind = "Alloc" /\ ~a.populate
                                       /\ access \subseteq a.flags]]
    /\ UNCHANGED <<asp, frames, mmlast>>
    /\ UNCHANGED NotMMTrap

\* handle_page_fault(vaddr, access_flags, is_user = true) in thread t: the
\* address space handles the fault with result r under its mutex, and the
\* thread goes back to user mode or exits with axtask::exit(-1)
UserPageFault(t) ==
    /\ Running
    /\ tr[t].pc = "trapped"
    /\ \E r \in {handle_page_fault(asp[1].areas, asp[1].pt, frames, tr[t].va, tr[t].access)} :
          /\ Commit(1, r, "handle_page_fault", tr[t].va, 0, FALSE, {})
          /\ tr' = [tr EXCEPT ![t].pc = IF r.res = "Ok" THEN "user" ELSE "exited"]
    /\ UNCHANGED NotMMTrap

NextTrap ==
    \/ FMap
    \/ \E t \in Threads : UserTrap(t) \/ UserPageFault(t)

SpecTrap == Init /\ [][NextTrap]_vars

\* C33: when two threads have faulted on the same page, not yet resident,
\* of a lazily populated Alloc area with accesses the area permits, neither
\* thread is terminated
SharedFaultResolved ==
    \A t, u \in Threads :
        (t # u /\ tr[t].lazy /\ tr[u].lazy /\ tr[t].va = tr[u].va) => tr[t].pc # "exited"

(***************************************************************************)
(* Specification SpecFiles: a process makes a child process with or        *)
(* without CLONE_FILES; both open and close descriptors, and either one    *)
(* exits.  Each process has one thread.                                    *)
(***************************************************************************)

\* sys_clone without CLONE_THREAD: the child's FD_TABLE is the parent's
\* table (init_shared(FD_TABLE.share())) or a copy of it (copy_inner)
FilesClone ==
    /\ ft.alive["parent"]
    /\ ft.table["child"] = 0
    /\ \E files \in BOOLEAN :
          ft' = IF files
                THEN [ft EXCEPT !.alive["child"] = TRUE, !.table["child"] = ft.table["parent"]]
                ELSE [ft EXCEPT !.alive["child"] = TRUE, !.table["child"] = 2,
                                !.open[2] = ft.open[ft.table["parent"]]]
    /\ UNCHANGED NotFiles

\* process p opens a file: add_file_like takes the smallest unused descriptor
FilesOpen(p) ==
    /\ ft.alive[p]
    /\ (0..MaxFd) \ ft.open[ft.table[p]] # {}
    /\ ft' = [ft EXCEPT !.open[ft.table[p]] =
                 @ \cup {CHOOSE fd \in (0..MaxFd) \ @ : \A x \in (0..MaxFd) \ @ : fd <= x}]
    /\ UNCHANGED NotFiles

\* process p closes a descriptor
FilesClose(p) ==
    /\ ft.alive[p]
    /\ \E fd \in ft.open[ft.table[p]] :
          ft' = [ft EXCEPT !.open[ft.table[p]] = @ \ {fd}]
    /\ UNCHANGED NotFiles

\* an exit that leaves the FD table to its other holders
do_exit_files_kept(p) ==
    /\ ft.alive[p]
    /\ ft' = [ft EXCEPT !.alive[p] = FALSE]
    /\ UNCHANGED NotFiles

\* do_exit by the last thread of process p: FD_TABLE.clear() removes every
\* descriptor of the table of the current task
do_exit_files(p) ==
    /\ ft.alive[p]
    /\ ft' = [ft EXCEPT !.alive[p] = FALSE, !.open[ft.table[p]] = {}]
    /\ UNCHANGED NotFiles

NextFiles ==
    \/ FilesClone
    \/ \E p \in Procs : FilesOpen(p) \/ FilesClose(p) \/ do_exit_files(p)

SpecFiles == Init /\ [][NextFiles]_vars

\* C35: the exit of a process changes the FD table of no other live
\* process: in a step in which a process exits, every process that is alive
\* after it has the descriptors open that it had before
ExitKeepsOtherFds ==
    [][(\E p \in Procs : ft.alive[p] /\ ~ft'.alive[p])
          => \A q \in Procs :
                ft'.alive[q] => ft'.open[ft'.table[q]] = ft.open[ft.table[q]]]_vars

(***************************************************************************)
(* Specification SpecWaiters: two threads of a parent call                 *)
(* sys_waitpid(-1, &s, options) without WNOWAIT while the one child of the *)
(* parent exits.                                                           *)
(***************************************************************************)

\* the last thread of the child goes through do_exit: process.exit()
WaitersChildExit ==
    /\ ~wp.zombie
    /\ wp' = [wp EXCEPT !.zombie = TRUE]
    /\ UNCHANGED NotWaiters

\* sys_waitpid up to its loop: the selected children are collected into a
\* vector, and ECHILD is returned if there is none
WaitpidCall(t) ==
    /\ wp.th[t].pc = "user"
    /\ wp.th[t].calls < MaxCalls
    /\ \E nohang \in BOOLEAN :
          wp' = IF wp.children = {}
                THEN [wp EXCEPT !.th[t].ret = "ECHILD", !.th[t].calls = @ + 1]
                ELSE [wp EXCEPT !.th[t].pc = "loop", !.th[t].nohang = nohang,
                                !.th[t].snap = wp.children, !.th[t].ret = "none",
                                !.th[t].calls = @ + 1]
    /\ UNCHANGED NotWaiters

\* one turn of the loop: children.iter().find(|child| child.is_zombie())
WaitpidFind(t) ==
    /\ wp.th[t].pc = "loop"
    /\ wp' = IF wp.th[t].snap # {} /\ wp.zombie
             THEN [wp EXCEPT !.th[t].pc = "found"]
             ELSE IF wp.th[t].nohang
                  THEN [wp EXCEPT !.th[t].pc = "user", !.th[t].ret = "0"]
                  ELSE wp
    /\ UNCHANGED NotWaiters

\* the zombie that was found: child.free(), which takes the child out of the
\* children of its parent, and return Ok(child.pid())
WaitpidReap(t) ==
    /\ wp.th[t].pc = "found"
    /\ wp' = [wp EXCEPT !.children = {}, !.frees = @ + 1,
                        !.th[t].pc = "user", !.th[t].ret = "pid"]
    /\ UNCHANGED NotWaiters

NextWaiters ==
    \/ WaitersChildExit
    \/ \E t \in Threads : WaitpidCall(t) \/ WaitpidFind(t) \/ WaitpidReap(t)

SpecWaiters == Init /\ [][NextWaiters]_vars

\* C36: of the calls of waitpid by two threads of the parent, at most one
\* returns the pid of the zombie child, and the child is freed at most once
ZombieReapedOnce ==
    /\ wp.frees <= 1
    /\ ~(\A t \in Threads : wp.th[t].ret = "pid")

(***************************************************************************)
(* Specification SpecMmap: sys_mmap and unmap on the address space of a    *)
(* process that has stdin open as descriptor 0 and a regular file of one   *)
(* page as descriptor 3.                                                   *)
(***************************************************************************)

\* the arguments of sys_mmap: addr (0: null), length, fd and offset
MmapAddrs == {0, VaStart, VaStart + PAGE_SIZE_4K}
MmapLengths == {PAGE_SIZE_4K, 2 * PAGE_SIZE_4K}
MmapFds == {-1, 0, 3, 5}
MmapOffsets == {0, PAGE_SIZE_4K}

\* file.stat()?.st_size of descriptor 3, and the byte its content repeats
MmapFileSize == PAGE_SIZE_4K
MmapFileByte == BytePeriod - 1

\* the result of sys_mmap: the error or Ok(ret), and the address space
MmapRes(res, ret, r) == [res |-> res, ret |-> ret, areas |-> r.areas, pt |-> r.pt, g |-> r.g]

\* aspace.write(start_addr, &buf): the frames of the pages that buf reaches
\* take the content of the file
MmapWrite(pt, g, start, len) ==
    [g EXCEPT !.data = [f \in FrameIds |->
        IF \E e \in pt : e.frame = f /\ start <= e.va /\ e.va < start + len
        THEN MmapFileByte ELSE @[f]]]

\* sys_mmap after map_alloc has returned m: the file is looked up, checked
\* and read into the mapping
MmapPopulate(m, start_addr, length, fd, offset) ==
    IF fd \notin {0, 3} THEN MmapRes("EBADF", 0, m)
    ELSE IF fd # 3 THEN MmapRes("EBADF", 0, m)
    ELSE IF offset < 0 \/ offset >= MmapFileSize THEN MmapRes("EINVAL", 0, m)
    ELSE MmapRes("Ok", start_addr,
                 [m EXCEPT !.g = MmapWrite(m.pt, m.g, start_addr,
                                           Min(length, MmapFileSize - offset))])

\* sys_mmap from map_alloc on, in the address space r
MmapAt(r, start_addr, aligned_length, length, flags, anonymous, fd, offset) ==
    With(map_alloc(r.areas, r.pt, r.g, start_addr, aligned_length, flags,
                   fd # -1 /\ ~anonymous, PAGE_SIZE_4K),
         LAMBDA m : IF m.res # "Ok" THEN MmapRes(m.res, 0, m)
                    ELSE IF fd # -1 /\ ~anonymous
                    THEN MmapPopulate(m, start_addr, length, fd, offset)
                    ELSE MmapRes("Ok", start_addr, m))

\* sys_mmap(addr, length, prot, flags, fd, offset)
sys_mmap(areas, pt, g, addr, length, flags, fixed, anonymous, fd, offset) ==
    LET aligned_length == IF addr = 0 THEN align_up(length, PAGE_SIZE_4K)
                          ELSE align_up(addr + length, PAGE_SIZE_4K) - addr
        aligned_addr == IF addr = 0 THEN 0 ELSE align_down(addr, PAGE_SIZE_4K)
        limit == [start |-> VaStart, end |-> VaEnd]
    IN  IF fixed
        THEN IF aligned_addr = 0 THEN MmapRes("EINVAL", 0, Res("Ok", areas, pt, g))
             ELSE With(unmap(areas, pt, g, aligned_addr, aligned_length),
                       LAMBDA u : IF u.res # "Ok" THEN MmapRes(u.res, 0, u)
                                  ELSE MmapAt(u, aligned_addr, aligned_length, length, flags,
                                              anonymous, fd, offset))
        ELSE With(find_free_area(areas, aligned_addr, aligned_length, limit, PAGE_SIZE_4K),
                  LAMBDA f1 :
                    With(IF f1.some THEN f1
                         ELSE find_free_area(areas, VaStart, aligned_length, limit, PAGE_SIZE_4K),
                         LAMBDA f : IF f.some
                                    THEN MmapAt(Res("Ok", areas, pt, g), f.addr, aligned_length,
                                                length, flags, anonymous, fd, offset)
                                    ELSE MmapRes("ENOMEM", 0, Res("Ok", areas, pt, g))))

\* the process calls sys_mmap
SysMmap ==
    /\ Callable(1)
    /\ Cardinality(asp[1].areas) < MaxMaps
    /\ \E addr \in MmapAddrs, length \in MmapLengths, flags \in MapFlags,
          fixed \in BOOLEAN, anonymous \in BOOLEAN, fd \in MmapFds, offset \in MmapOffsets :
          With(sys_mmap(asp[1].areas, asp[1].pt, frames, addr, length, flags, fixed,
                        anonymous, fd, offset),
               LAMBDA r :
                 /\ asp' = [asp EXCEPT ![1] = [live |-> TRUE, areas |-> r.areas, pt |-> r.pt]]
                 /\ frames' = r.g
                 /\ mmlast' = [op |-> "sys_mmap", asp |-> 1, start |-> r.ret, size |-> length,
                               populate |-> fd # -1 /\ ~anonymous, res |-> r.res,
                               hit |-> {}])
    /\ UNCHANGED NotMM

NextMmap ==
    \/ SysMmap
    \/ Unmap(1)

SpecMmap == Init /\ [][NextMmap]_vars

\* C37: a sys_mmap that returns an error leaves the areas of the caller's
\* address space as they were before the call
MmapErrorKeepsAreas ==
    [][(mmlast'.op = "sys_mmap" /\ mmlast'.res # "Ok")
          => asp'[1].areas = asp[1].areas]_vars

(***************************************************************************)
(* Specification SpecDup2: files are opened and closed and sys_dup2 is     *)
(* called with descriptors in and out of [0, AX_FILE_LIMIT).               *)
(***************************************************************************)

\* the arguments of sys_dup2
Dup2OldArgs == {-1, 0, 3}
Dup2NewArgs == {-1, 0, 3, 4, AX_FILE_LIMIT - 1, AX_FILE_LIMIT}

\* FlattenObjects::add_at(id, f): an error for an id that is not below the
\* capacity or that is in use
add_at(table, id, f) ==
    IF id \notin Unused(table) THEN [ok |-> FALSE, table |-> table]
    ELSE [ok |-> TRUE, table |-> Installed(table, id, f)]

\* sys_dup2(old_fd, new_fd): an i32 cast to usize is below the capacity only
\* if it is in [0, AX_FILE_LIMIT); the unwrap_or_else panics on an error
sys_dup2 ==
    /\ fdt.err # "Panic"
    /\ fdt.opens < MaxOpens
    /\ \E old_fd \in Dup2OldArgs, new_fd \in Dup2NewArgs :
          fdt' = IF old_fd \notin DOMAIN fdt.table
                 THEN [fdt EXCEPT !.prev = fdt.table, !.op = "dup2", !.arg = <<old_fd, new_fd>>,
                                  !.file = 0, !.err = "EBADF", !.ret = -1]
                 ELSE IF old_fd = new_fd
                 THEN [fdt EXCEPT !.prev = fdt.table, !.op = "dup2", !.arg = <<old_fd, new_fd>>,
                                  !.file = fdt.table[old_fd], !.err = "Ok", !.ret = new_fd]
                 ELSE With(add_at(Removed(fdt.table, new_fd), new_fd, fdt.table[old_fd]),
                           LAMBDA r : [table |-> r.table, prev |-> fdt.table,
                                       opens |-> fdt.opens + 1, op |-> "dup2",
                                       arg |-> <<old_fd, new_fd>>, file |-> fdt.table[old_fd],
                                       err |-> IF r.ok THEN "Ok" ELSE "Panic",
                                       ret |-> IF r.ok THEN new_fd ELSE -1])
    /\ UNCHANGED NotFd

\* a kernel panic stops the machine
NextDup2 ==
    \/ fdt.err # "Panic" /\ AddFileLike
    \/ fdt.err # "Panic" /\ sys_close
    \/ sys_dup2

SpecDup2 == Init /\ [][NextDup2]_vars

\* C38: sys_dup2 never panics: it returns new_fd or an error, and with a
\* valid old_fd and a new_fd outside [0, AX_FILE_LIMIT) it returns an error
\* and leaves the FD table as it was
Dup2NeverPanics ==
    fdt.op = "dup2" =>
        /\ fdt.err # "Panic"
        /\ fdt.err = "Ok" => fdt.ret = fdt.arg[2]
        /\ (fdt.arg[1] \in DOMAIN fdt.prev /\ fdt.arg[2] \notin 0..(AX_FILE_LIMIT - 1))
              => (fdt.err # "Ok" /\ fdt.table = fdt.prev)

(***************************************************************************)
(* Specification SpecBrk: the two threads of a process call sys_brk with   *)
(* addresses below, inside and above the heap; another thread can run      *)
(* between the loads and the store of a call.                              *)
(***************************************************************************)

\* the addresses that sys_brk is called with
BrkAddrs == 0..(USER_HEAP_BASE + USER_HEAP_SIZE + 1)

\* sys_brk(addr): return_val = process_data.get_heap_top()
sys_brk_load(t) ==
    /\ br.th[t].pc = "user"
    /\ \E addr \in BrkAddrs :
          br' = [br EXCEPT !.th[t] = [pc |-> "loaded", addr |-> addr,
                                      return_val |-> br.heap_top, ret |-> -1]]
    /\ UNCHANGED NotBrk

\* a sys_brk that takes every address from heap_bottom on
sys_brk_store_unbounded(t) ==
    /\ br.th[t].pc = "loaded"
    /\ br' = IF br.th[t].addr # 0 /\ br.th[t].addr >= br.heap_bottom
             THEN [br EXCEPT !.heap_top = br.th[t].addr,
                             !.th[t].pc = "user", !.th[t].ret = br.th[t].addr]
             ELSE [br EXCEPT !.th[t].pc = "user", !.th[t].ret = br.th[t].return_val]
    /\ UNCHANGED NotBrk

\* sys_brk(addr): heap_bottom is loaded, and an addr inside
\* [heap_bottom, heap_bottom + USER_HEAP_SIZE] is stored as heap_top and returned
sys_brk_store(t) ==
    /\ br.th[t].pc = "loaded"
    /\ br' = IF /\ br.th[t].addr # 0
                /\ br.th[t].addr >= br.heap_bottom
                /\ br.th[t].addr <= br.heap_bottom + USER_HEAP_SIZE
             THEN [br EXCEPT !.heap_top = br.th[t].addr,
                             !.th[t].pc = "user", !.th[t].ret = br.th[t].addr]
             ELSE [br EXCEPT !.th[t].pc = "user", !.th[t].ret = br.th[t].return_val]
    /\ UNCHANGED NotBrk

NextBrk == \E t \in Threads : sys_brk_load(t) \/ sys_brk_store(t)

SpecBrk == Init /\ [][NextBrk]_vars

\* the requests that sys_brk is to refuse
OutsideHeap(addr) ==
    addr < USER_HEAP_BASE \/ addr > USER_HEAP_BASE + USER_HEAP_SIZE

\* C39: whatever the threads of the process pass to sys_brk, heap_bottom
\* stays USER_HEAP_BASE and heap_top stays within
\* [heap_bottom, heap_bottom + USER_HEAP_SIZE]; a call with an address
\* outside that range leaves heap_top alone and returns the heap_top that it
\* read
BrkKeepsHeapBounds ==
    /\ [](/\ br.heap_bottom = USER_HEAP_BASE
          /\ br.heap_bottom <= br.heap_top
          /\ br.heap_top <= br.heap_bottom + USER_HEAP_SIZE)
    /\ [][\A t \in Threads :
            /\ (br.th[t].pc = "user" /\ br'.th[t].pc = "loaded")
                  => br'.th[t].return_val = br.heap_top
            /\ (br.th[t].pc = "loaded" /\ br'.th[t].pc = "user" /\ OutsideHeap(br.th[t].addr))
                  => (br'.heap_top = br.heap_top /\ br'.th[t].ret = br.th[t].return_val)]_vars

\* a call with an address above the heap has returned the heap_top set by an
\* earlier call while the other thread is inside sys_brk
BrkKeepsHeapBounds_witness ==
    \E t, u \in Threads :
        /\ t # u
        /\ br.th[t].pc = "user"
        /\ br.th[t].addr > USER_HEAP_BASE + USER_HEAP_SIZE
        /\ br.th[t].ret = br.heap_top
        /\ br.heap_top > USER_HEAP_BASE
        /\ br.th[u].pc = "loaded"

(***************************************************************************)
(* Specification SpecTime: the TimeStat of a task is reset while the task  *)
(* runs in the kernel, and from then on the task goes to user mode and     *)
(* comes back (handle_syscall) as the clock advances.                      *)
(***************************************************************************)

\* monotonic_time_nanos() advances
TimePasses ==
    /\ tst.now < MaxTime
    /\ tst' = [tst EXCEPT !.now = @ + 1]
    /\ UNCHANGED NotTime

\* TimeStat::reset(current_timestamp)
reset ==
    /\ tst.mode = "new"
    /\ tst' = [tst EXCEPT !.utime_ns = 0, !.stime_ns = 0, !.user_timestamp = 0,
                          !.kernel_timestamp = tst.now,
                          !.mode = "kernel", !.t0 = tst.now, !.last = tst.now]
    /\ UNCHANGED NotTime

\* TimeStat::switch_into_user_mode(current_timestamp), with no timer set
switch_into_user_mode ==
    /\ tst.mode = "kernel"
    /\ tst' = [tst EXCEPT !.stime_ns = @ + (tst.now - tst.kernel_timestamp),
                          !.user_timestamp = tst.now,
                          !.mode = "user", !.last = tst.now,
                          !.kernel = @ + (tst.now - tst.last)]
    /\ UNCHANGED NotTime

\* TimeStat::switch_into_kernel_mode(current_timestamp), with no timer set
switch_into_kernel_mode ==
    /\ tst.mode = "user"
    /\ tst' = [tst EXCEPT !.utime_ns = @ + (tst.now - tst.kernel_timestamp),
                          !.kernel_timestamp = tst.now,
                          !.mode = "kernel", !.last = tst.now,
                          !.user = @ + (tst.now - tst.last)]
    /\ UNCHANGED NotTime

NextTime ==
    \/ TimePasses
    \/ reset
    \/ switch_into_user_mode
    \/ switch_into_kernel_mode

SpecTime == Init /\ [][NextTime]_vars

\* C40: after reset(t0) and any alternation of switches, no interval is
\* accounted twice: utime_ns + stime_ns is the time from t0 to the last
\* switch, utime_ns the time spent in user mode and stime_ns the time spent
\* in the kernel
TimeAccountedOnce ==
    tst.mode # "new" =>
        /\ tst.utime_ns + tst.stime_ns = tst.last - tst.t0
        /\ tst.utime_ns = tst.user
        /\ tst.stime_ns = tst.kernel

====
